---- MODULE Spec2Model ----
(***************************************************************************)
(* ReliableWebSocket over an UnreliableCommunicator (soundpasta,            *)
(* src/lib/reliableWebsocket): packet codec, ReliabilityManager and the     *)
(* connection state machine with fragmentation and reassembly.             *)
(*                                                                         *)
(* Buffers are sequences of bytes 0..255.  Unsigned 32-bit quantities that  *)
(* travel on the wire (sequence, checksum, fragment id) are kept as their   *)
(* four little-endian bytes, which is exactly what setUint32(.., true)      *)
(* writes and getUint32(.., true) reads.                                    *)
(***************************************************************************)
EXTENDS Integers, Sequences, FiniteSets, TLC

(***************************************************************************)
(* types.ts                                                                *)
(***************************************************************************)
CONNECTING == 0
OPEN == 1
CLOSING == 2
CLOSED == 3

DATA == 1
ACK == 2
SYN == 4
FIN == 8

PACKET_HEADER_SIZE == 11
SEQUENCE_SIZE == 4
CHECKSUM_SIZE == 4
FLAGS_SIZE == 1
LENGTH_SIZE == 2

\* the size of the fragment header of reliable-websocket.ts
FragmentHeaderSize == 5

(***************************************************************************)
(* ReliabilityConfig of the endpoints under verification.                  *)
(***************************************************************************)
maxPacketPayloadSize == 5
maxRetransmissionAttempts == 1

(***************************************************************************)
(* Byte-level helpers (DataView / Uint8Array).                             *)
(***************************************************************************)
\* DataView.setUint32(off, n, true) for a number n: its four bytes, low first
U32LE(n) ==
  <<n % 256, (n \div 256) % 256, (n \div 65536) % 256, (n \div 16777216) % 256>>

\* DataView.setUint16(off, n, true)
U16LE(n) == <<n % 256, (n \div 256) % 256>>

\* a getUint16 that reads the high byte first
GetU16LE_BigEndian(b) == 256 * b[1] + b[2]

\* DataView.getUint16(off, true)
GetU16LE(b) == b[1] + 256 * b[2]

\* ArrayBuffer.slice(from, to), 0-based, end exclusive, clamped to the buffer
Slice(buf, from, to) ==
  LET hi == IF to > Len(buf) THEN Len(buf) ELSE to
  IN  IF from >= hi THEN <<>> ELSE SubSeq(buf, from + 1, hi)

\* (x + 1) >>> 0 on the four little-endian bytes of x
RECURSIVE IncBytes(_, _)
IncBytes(b, i) ==
  IF i > Len(b) THEN b
  ELSE IF b[i] = 255 THEN IncBytes([b EXCEPT ![i] = 0], i + 1)
  ELSE [b EXCEPT ![i] = @ + 1]

Inc32(x) == IncBytes(x, 1)

(***************************************************************************)
(* packet.ts: CRC32 as computed by crc-32's CRC32.buf (reflected polynomial *)
(* 0xEDB88320, table driven), on 32-bit words kept as four little-endian    *)
(* bytes.                                                                  *)
(***************************************************************************)
RECURSIVE XorBits(_, _, _)
XorBits(a, b, n) ==
  IF n = 0 THEN 0 ELSE ((a + b) % 2) + 2 * XorBits(a \div 2, b \div 2, n - 1)

RECURSIVE XorRow(_, _)
XorRow(a, b) == IF b = 16 THEN <<>> ELSE <<XorBits(a, b, 4)>> \o XorRow(a, b + 1)

RECURSIVE XorRows(_)
XorRows(a) == IF a = 16 THEN <<>> ELSE <<XorRow(a, 0)>> \o XorRows(a + 1)

\* a ^ b for 4-bit a and b, tabulated
XorNibble == XorRows(0)

\* a ^ b for bytes a and b, by the nibble table T
XorWith(T, a, b) ==
  16 * T[(a \div 16) + 1][(b \div 16) + 1] + T[(a % 16) + 1][(b % 16) + 1]

\* a ^ b for bytes a and b
XorByte(a, b) == XorWith(XorNibble, a, b)

\* 0xEDB88320, low byte first
CrcPoly == <<32, 131, 184, 237>>

\* w >>> 1
Shr1(w) ==
  <<(w[1] \div 2) + 128 * (w[2] % 2), (w[2] \div 2) + 128 * (w[3] % 2),
    (w[3] \div 2) + 128 * (w[4] % 2), w[4] \div 2>>

XorWord(v, w) ==
  <<XorByte(v[1], w[1]), XorByte(v[2], w[2]), XorByte(v[3], w[3]), XorByte(v[4], w[4])>>

RECURSIVE CrcShift(_, _)
CrcShift(w, n) ==
  IF n = 0 THEN w
  ELSE CrcShift(IF w[1] % 2 = 1 THEN XorWord(Shr1(w), CrcPoly) ELSE Shr1(w), n - 1)

RECURSIVE CrcRows(_, _)
CrcRows(lo, hi) ==
  IF lo = hi THEN <<CrcShift(<<lo, 0, 0, 0>>, 8)>>
  ELSE CrcRows(lo, (lo + hi) \div 2) \o CrcRows(((lo + hi) \div 2) + 1, hi)

\* the 256-entry table of the byte-wise algorithm
CrcTable == CrcRows(0, 255)

\* t ^ (crc >>> 8)
CrcMix(t, crc) ==
  <<XorByte(t[1], crc[2]), XorByte(t[2], crc[3]), XorByte(t[3], crc[4]), t[4]>>

\* one step of the byte-wise algorithm: table[(crc ^ d) & 0xff] ^ (crc >>> 8)
CrcStep(crc, d) ==
  CHOOSE r \in UNION {{CrcMix(t, c) : t \in {CrcTable[XorByte(c[1], b) + 1]}} :
                        c \in {crc}, b \in {d}} : TRUE

\* the steps for data[lo..hi] in order, split in halves; the value after the first
\* half is computed once and then carried through the second
RECURSIVE CrcBytes(_, _, _, _)
CrcBytes(crc, data, lo, hi) ==
  IF lo > hi THEN crc
  ELSE IF lo = hi THEN CrcStep(crc, data[lo])
  ELSE CHOOSE r \in {CrcBytes(c, data, ((lo + hi) \div 2) + 1, hi) :
                       c \in {CrcBytes(crc, data, lo, (lo + hi) \div 2)}} : TRUE

\* crc ^ 0xFFFFFFFF
CrcNot(crc) == <<255 - crc[1], 255 - crc[2], 255 - crc[3], 255 - crc[4]>>

\* calculateChecksum: CRC32.buf(view) >>> 0, as the four bytes setUint32 writes
calculateChecksum(data) ==
  CHOOSE r \in UNION {{CrcNot(crc) : crc \in {CrcBytes(<<255, 255, 255, 255>>, d, 1, Len(d))}} :
                        d \in {data}} : TRUE

\* encodePacket(sequence, flags, payload); sequence given as its four LE bytes
encodePacket(sequence, flags, payload) ==
  LET payloadLength == Len(payload)
      headerWithoutChecksum == sequence \o <<flags % 256>> \o U16LE(payloadLength)
      checksum == calculateChecksum(headerWithoutChecksum \o payload)
  IN  sequence \o checksum \o <<flags % 256>> \o U16LE(payloadLength) \o payload

NoPacket == [null |-> TRUE]

\* decodePacket(data): NoPacket for null, else the header fields and the payload
decodePacket(data) ==
  IF Len(data) < PACKET_HEADER_SIZE THEN NoPacket
  ELSE
    LET sequence == SubSeq(data, 1, SEQUENCE_SIZE)
        checksum == SubSeq(data, SEQUENCE_SIZE + 1, SEQUENCE_SIZE + CHECKSUM_SIZE)
        flags == data[SEQUENCE_SIZE + CHECKSUM_SIZE + 1]
        payloadLength == GetU16LE(SubSeq(data, 10, 11))
        offset == SEQUENCE_SIZE + CHECKSUM_SIZE + FLAGS_SIZE + LENGTH_SIZE
    IN  IF Len(data) < PACKET_HEADER_SIZE + payloadLength THEN NoPacket
        ELSE
          LET payload == Slice(data, offset, offset + payloadLength)
              headerWithoutChecksum == sequence \o <<flags>> \o U16LE(payloadLength)
              calculatedChecksum == calculateChecksum(headerWithoutChecksum \o payload)
          IN  IF calculatedChecksum # checksum THEN NoPacket
              ELSE [null |-> FALSE, sequence |-> sequence, checksum |-> checksum,
                    flags |-> flags, payloadLength |-> payloadLength,
                    payload |-> payload]

createAckPacket(sequence) == encodePacket(sequence, ACK, <<>>)

createSynPacket == encodePacket(U32LE(0), SYN, <<>>)

createFinPacket(sequence) == encodePacket(sequence, FIN, <<>>)

\* the flags and the sequence in the header of an encoded packet
FlagsOf(buffer) == buffer[SEQUENCE_SIZE + CHECKSUM_SIZE + 1]

SequenceOf(buffer) == SubSeq(buffer, 1, SEQUENCE_SIZE)

(***************************************************************************)
(* Model bounds.                                                           *)
(***************************************************************************)
\* longest message handed to send()
MaxMsgLen == 6
\* number of send() calls accepted per endpoint
MaxSends == 1
\* number of sequences evicted from a full received-sequence window
MaxEvictions == 3
\* sequences 0..MaxTestSeq are used by packets injected with simulateReceive
MaxTestSeq == 1

(***************************************************************************)
(* JavaScript values.  An optional argument (code?, reason?) is the empty   *)
(* sequence when omitted and a one-element sequence when given.  A Map is a *)
(* function; Map.size is the cardinality of its domain.                    *)
(***************************************************************************)
Undefined == <<>>

Some(v) == <<v>>

\* v || d : d when v is undefined or falsy (0 or "")
OrElse(v, falsy, d) == IF v = Undefined \/ v[1] = falsy THEN d ELSE v[1]

EmptyMap == [k \in {} |-> 0]

MapHas(m, k) == k \in DOMAIN m

MapSet(m, k, v) == [x \in (DOMAIN m) \cup {k} |-> IF x = k THEN v ELSE m[x]]

MapDelete(m, k) == [x \in (DOMAIN m) \ {k} |-> m[x]]

\* flags & bit, for a one-bit mask
HasFlag(flags, bit) == (flags \div bit) % 2 = 1

\* test-utils.ts createTestPayload(size): payload[i] = i % 256
createTestPayload(size) == [i \in 1..size |-> (i - 1) % 256]

\* test-utils.ts createTestPacket
createTestPacket(sequence, flags, payload) == encodePacket(sequence, flags, payload)

\* test-utils.ts corruptPacket with the random index given: the byte at the 0-based
\* index is incremented modulo 256
corruptPacket(packet, index) == [packet EXCEPT ![index + 1] = (@ + 1) % 256]

(***************************************************************************)
(* Timers.  A pending setTimeout is the closure it will run; clearTimeout   *)
(* removes it from the pending set.                                        *)
(***************************************************************************)
ConnectionTimeout == [kind |-> "connection"]

ClosingTimeout(code, reason) == [kind |-> "closing", code |-> code, reason |-> reason]

RetransmitTimeout(sequence, packet) ==
  [kind |-> "retransmit", sequence |-> sequence, packet |-> packet]

(***************************************************************************)
(* The result of running code on an endpoint w: the endpoint afterwards,    *)
(* the buffers handed to communicator.send in order, and the events fired   *)
(* on the onopen / onmessage / onerror / onclose callbacks in order.        *)
(***************************************************************************)
Eff(w, sent, events) == [w |-> w, sent |-> sent, events |-> events]

\* the effect of code with effect first followed by code with effect after, which
\* started from first.w
Then(first, after) ==
  CHOOSE eff \in {Eff(b.w, a.sent \o b.sent, a.events \o b.events) :
                    a \in {first}, b \in {after}} : TRUE

OpenEvent == [type |-> "open"]

ErrorEvent == [type |-> "error"]

MessageEvent(data) == [type |-> "message", data |-> data]

CloseEvent(code, reason, wasClean) ==
  [type |-> "close", code |-> code, reason |-> reason, wasClean |-> wasClean]

(***************************************************************************)
(* reliability.ts: ReliabilityManager (its fields are kept in the endpoint  *)
(* record next to those of ReliableWebSocket).                             *)
(***************************************************************************)
windowSize == 1000

\* a getNextSequence that hands out the counter and leaves it as it is
getNextSequence_Stuck(w) == [seq |-> w.nextSequence, w |-> w]

\* getNextSequence(): the sequence returned and the endpoint afterwards
getNextSequence(w) ==
  [seq |-> w.nextSequence, w |-> [w EXCEPT !.nextSequence = Inc32(@)]]

\* scheduleRetransmission(sequence, packet, flags)
scheduleRetransmission(w, sequence, packet, flags) ==
  IF flags = ACK THEN w
  ELSE [w EXCEPT
         !.timers = @ \cup {RetransmitTimeout(sequence, packet)},
         !.unacknowledgedPackets =
            MapSet(@, sequence, [sequence |-> sequence, packet |-> packet,
                                 attempts |-> 0,
                                 timerId |-> RetransmitTimeout(sequence, packet)])]

\* a handleAck that cancels the timer and keeps the entry
handleAck_KeepsEntry(w, sequence) ==
  IF MapHas(w.unacknowledgedPackets, sequence)
  THEN [w EXCEPT !.timers = @ \ {w.unacknowledgedPackets[sequence].timerId}]
  ELSE w

\* handleAck(sequence)
handleAck(w, sequence) ==
  IF MapHas(w.unacknowledgedPackets, sequence)
  THEN [w EXCEPT !.timers = @ \ {w.unacknowledgedPackets[sequence].timerId},
                 !.unacknowledgedPackets = MapDelete(@, sequence)]
  ELSE w

\* an isDuplicate that never finds the sequence
isDuplicate_Never(w, sequence) == FALSE

isDuplicate(w, sequence) == sequence \in w.receivedSequences

\* a markReceived that shifts the window and keeps the evicted sequence in the map
markReceived_KeepsEvicted(w, sequence) ==
  LET pushed == Append(w.receivedSequenceWindow, sequence)
  IN  IF Len(pushed) > windowSize
      THEN [w EXCEPT !.receivedSequenceWindow = Tail(pushed),
                     !.receivedSequences = @ \cup {sequence}]
      ELSE [w EXCEPT !.receivedSequenceWindow = pushed,
                     !.receivedSequences = @ \cup {sequence}]

\* markReceived(sequence)
markReceived(w, sequence) ==
  LET pushed == Append(w.receivedSequenceWindow, sequence)
  IN  IF Len(pushed) > windowSize
      THEN [w EXCEPT !.receivedSequenceWindow = Tail(pushed),
                     !.receivedSequences = (@ \cup {sequence}) \ {Head(pushed)}]
      ELSE [w EXCEPT !.receivedSequenceWindow = pushed,
                     !.receivedSequences = @ \cup {sequence}]

\* a sendAck that acknowledges the sequence after the one received
sendAck_NextSequence(sequence) == createAckPacket(Inc32(sequence))

\* sendAck(sequence): the buffer handed to the send callback
sendAck(sequence) == createAckPacket(sequence)

Null == [null |-> TRUE]

\* a handleReceivedPacket that acknowledges ACK packets as well
handleDecoded_AcksAcks(w, decoded) ==
  IF decoded.null THEN [eff |-> Eff(w, <<>>, <<>>), result |-> Null]
  ELSE IF decoded.flags = ACK
  THEN [eff |-> Eff(handleAck(w, decoded.sequence), <<sendAck(decoded.sequence)>>, <<>>),
        result |-> Null]
  ELSE
    LET dup == isDuplicate(w, decoded.sequence)
        w1 == IF ~dup THEN markReceived(w, decoded.sequence) ELSE w
    IN  [eff |-> Eff(w1, <<sendAck(decoded.sequence)>>, <<>>),
         result |-> [null |-> FALSE, sequence |-> decoded.sequence,
                     flags |-> decoded.flags, payload |-> decoded.payload,
                     isDuplicate |-> dup]]

\* handleReceivedPacket once decodePacket(data) has returned decoded
handleDecoded(w, decoded) ==
  IF decoded.null THEN [eff |-> Eff(w, <<>>, <<>>), result |-> Null]
  ELSE IF decoded.flags = ACK
  THEN [eff |-> Eff(handleAck(w, decoded.sequence), <<>>, <<>>), result |-> Null]
  ELSE
    LET dup == isDuplicate(w, decoded.sequence)
        w1 == IF ~dup THEN markReceived(w, decoded.sequence) ELSE w
    IN  [eff |-> Eff(w1, <<sendAck(decoded.sequence)>>, <<>>),
         result |-> [null |-> FALSE, sequence |-> decoded.sequence,
                     flags |-> decoded.flags, payload |-> decoded.payload,
                     isDuplicate |-> dup]]

\* a handleReceivedPacket that acknowledges what it cannot decode, by the sequence
\* field it reads from the header
handleReceivedPacket_AcksGarbage(w, data) ==
  IF decodePacket(data).null /\ Len(data) >= SEQUENCE_SIZE
  THEN [eff |-> Eff(w, <<createAckPacket(SubSeq(data, 1, SEQUENCE_SIZE))>>, <<>>),
        result |-> Null]
  ELSE handleDecoded(w, decodePacket(data))

\* handleReceivedPacket(data): the effect and the value returned
handleReceivedPacket(w, data) ==
  CHOOSE r \in {handleDecoded(w, decoded) : decoded \in {decodePacket(data)}} : TRUE

\* communicator.send(packet) on the carrier the endpoint was constructed with.  The
\* mock keeps or forwards the buffer and returns.  A carrier that delivers at once and
\* whose peer acknowledges at once calls onReceive with the ACK of a packet that is no
\* ACK before send returns: handleReceivedData runs handleReceivedPacket, which
\* returns null for an ACK, and returns
communicatorSend(w, packet) ==
  IF w.communicator = "echo" /\ FlagsOf(packet) # ACK
  THEN Then(Eff(w, <<packet>>, <<>>),
            handleReceivedPacket(w, createAckPacket(SequenceOf(packet))).eff)
  ELSE Eff(w, <<packet>>, <<>>)

\* sendPacket after the sendCallback has returned with effect c
scheduleAfter(c, sequence, packet, flags) ==
  Eff(scheduleRetransmission(c.w, sequence, packet, flags), c.sent, c.events)

\* a sendPacket that records the outstanding entry before it calls the sendCallback
sendEncoded_RecordsFirst(w, sequence, packet, flags) ==
  communicatorSend(scheduleRetransmission(w, sequence, packet, flags), packet)

\* sendPacket from the sendCallback on: the packet is handed to the carrier and,
\* unless it is an ACK, scheduled for retransmission
sendEncoded(w, sequence, packet, flags) ==
  IF flags = ACK THEN communicatorSend(w, packet)
  ELSE scheduleAfter(communicatorSend(w, packet), sequence, packet, flags)

\* sendPacket once getNextSequence() has returned n
sendSequenced(n, payload, flags) ==
  CHOOSE eff \in {sendEncoded(n.w, n.seq, packet, flags) :
                    packet \in {encodePacket(n.seq, flags, payload)}} : TRUE

\* sendPacket(payload, flags)
sendPacket(w, payload, flags) ==
  CHOOSE eff \in {sendSequenced(n, payload, flags) : n \in {getNextSequence(w)}} : TRUE

\* a scheduleNext that gives up only once the attempts exceed the limit
scheduleNext_OneMore(w, t) ==
  LET w1 == [w EXCEPT !.timers = @ \ {t}]
  IN  IF ~MapHas(w1.unacknowledgedPackets, t.sequence) THEN Eff(w1, <<>>, <<>>)
      ELSE IF w1.unacknowledgedPackets[t.sequence].attempts > maxRetransmissionAttempts
      THEN Eff([w1 EXCEPT !.unacknowledgedPackets = MapDelete(@, t.sequence)],
               <<>>, <<>>)
      ELSE Eff([w1 EXCEPT
                  !.unacknowledgedPackets[t.sequence].attempts = @ + 1,
                  !.unacknowledgedPackets[t.sequence].timerId = t,
                  !.timers = @ \cup {t}],
               <<t.packet>>, <<>>)

\* a scheduleNext that reports the packet it gives up on
scheduleNext_ReportsDrop(w, t) ==
  LET w1 == [w EXCEPT !.timers = @ \ {t}]
  IN  IF ~MapHas(w1.unacknowledgedPackets, t.sequence) THEN Eff(w1, <<>>, <<>>)
      ELSE IF w1.unacknowledgedPackets[t.sequence].attempts >= maxRetransmissionAttempts
      THEN Eff([w1 EXCEPT !.unacknowledgedPackets = MapDelete(@, t.sequence)],
               <<>>, <<ErrorEvent>>)
      ELSE Eff([w1 EXCEPT
                  !.unacknowledgedPackets[t.sequence].attempts = @ + 1,
                  !.unacknowledgedPackets[t.sequence].timerId = t,
                  !.timers = @ \cup {t}],
               <<t.packet>>, <<>>)

\* scheduleNext after the sendCallback has returned with effect c: the timer is
\* armed again and stored in the entry object, which the callback may have removed
\* from the map
rearm(c, t) ==
  IF MapHas(c.w.unacknowledgedPackets, t.sequence)
  THEN Eff([c.w EXCEPT !.unacknowledgedPackets[t.sequence].timerId = t,
                       !.timers = @ \cup {t}],
           c.sent, c.events)
  ELSE Eff([c.w EXCEPT !.timers = @ \cup {t}], c.sent, c.events)

\* scheduleNext: the callback of the retransmission timer t
scheduleNext(w, t) ==
  LET w1 == [w EXCEPT !.timers = @ \ {t}]
  IN  IF ~MapHas(w1.unacknowledgedPackets, t.sequence) THEN Eff(w1, <<>>, <<>>)
      ELSE
        LET unacked == w1.unacknowledgedPackets[t.sequence]
        IN  IF unacked.attempts >= maxRetransmissionAttempts
            THEN Eff([w1 EXCEPT !.unacknowledgedPackets = MapDelete(@, t.sequence)],
                     <<>>, <<>>)
            ELSE rearm(communicatorSend(
                         [w1 EXCEPT !.unacknowledgedPackets[t.sequence].attempts = @ + 1],
                         t.packet),
                       t)

\* getUnacknowledgedCount()
getUnacknowledgedCount(w) == Cardinality(DOMAIN w.unacknowledgedPackets)

RECURSIVE SumPacketSizes(_, _)
SumPacketSizes(m, keys) ==
  IF keys = {} THEN 0
  ELSE LET k == CHOOSE x \in keys : TRUE
       IN  Len(m[k].packet) + SumPacketSizes(m, keys \ {k})

\* getBufferedAmount()
getBufferedAmount(w) == SumPacketSizes(w.unacknowledgedPackets, DOMAIN w.unacknowledgedPackets)

(***************************************************************************)
(* reliable-websocket.ts: ReliableWebSocket                                *)
(***************************************************************************)
\* the fields after the field initialisers and the ReliabilityManager constructor
FreshEndpoint ==
  [communicator |-> "mock",         \* the carrier given to the constructor
   state |-> CONNECTING,
   connectionTimer |-> FALSE,        \* TRUE when the field holds a timer handle
   closingTimer |-> FALSE,
   timers |-> {},                    \* the pending setTimeout closures
   fragmentedMessages |-> EmptyMap,
   nextFragmentId |-> 1,
   nextSequence |-> U32LE(1),
   unacknowledgedPackets |-> EmptyMap,
   receivedSequences |-> {},
   receivedSequenceWindow |-> <<>>]

\* establishConnection() that sends the SYN but arms no connection timer
establishConnection_NoTimer(w) == Eff(w, <<createSynPacket>>, <<>>)

\* establishConnection() after communicator.send(synPacket) has returned with effect c
armConnectionTimer(c) ==
  Eff([c.w EXCEPT !.connectionTimer = TRUE, !.timers = @ \cup {ConnectionTimeout}],
      c.sent, c.events)

\* establishConnection()
establishConnection(w) == armConnectionTimer(communicatorSend(w, createSynPacket))

\* constructor(communicator, config) on the mock carrier
Construct == establishConnection(FreshEndpoint)

\* constructor(communicator, config) on a carrier whose peer acknowledges at once
ConstructEcho == establishConnection([FreshEndpoint EXCEPT !.communicator = "echo"])

\* handleSyn() that answers every SYN it is given with a SYN, in whatever state
handleSyn_AnswersAlways(w) ==
  IF w.state = CONNECTING
  THEN Eff([w EXCEPT
              !.timers = IF w.connectionTimer THEN @ \ {ConnectionTimeout} ELSE @,
              !.connectionTimer = FALSE,
              !.state = OPEN],
           <<createSynPacket>>, <<OpenEvent>>)
  ELSE Eff(w, <<createSynPacket>>, <<>>)

\* handleSyn() that opens from every state but OPEN
handleSyn_Reopens(w) ==
  IF w.state # OPEN
  THEN Eff([w EXCEPT
              !.timers = IF w.connectionTimer THEN @ \ {ConnectionTimeout} ELSE @,
              !.connectionTimer = FALSE,
              !.state = OPEN],
           <<createSynPacket>>, <<OpenEvent>>)
  ELSE Eff(w, <<>>, <<>>)

\* handleSyn() that opens without sending a SYN of its own
handleSyn_NoReply(w) ==
  IF w.state = CONNECTING
  THEN Eff([w EXCEPT
              !.timers = IF w.connectionTimer THEN @ \ {ConnectionTimeout} ELSE @,
              !.connectionTimer = FALSE,
              !.state = OPEN],
           <<>>, <<OpenEvent>>)
  ELSE Eff(w, <<>>, <<>>)

\* handleSyn() that leaves the connection timer pending
handleSyn_KeepsTimer(w) ==
  IF w.state = CONNECTING
  THEN Eff([w EXCEPT !.state = OPEN], <<createSynPacket>>, <<OpenEvent>>)
  ELSE Eff(w, <<>>, <<>>)

\* handleSyn() in CONNECTING after communicator.send(synPacket) has returned with
\* effect c
openAfter(c) ==
  Eff([c.w EXCEPT
         !.timers = IF c.w.connectionTimer THEN @ \ {ConnectionTimeout} ELSE @,
         !.connectionTimer = FALSE,
         !.state = OPEN],
      c.sent, c.events \o <<OpenEvent>>)

\* handleSyn()
handleSyn(w) ==
  IF w.state = CONNECTING
  THEN openAfter(communicatorSend(w, createSynPacket))
  ELSE Eff(w, <<>>, <<>>)

\* handleFin() that answers the FIN with a FIN of its own
handleFin_Replies(w) ==
  IF w.state = OPEN \/ w.state = CLOSING
  THEN Eff([w EXCEPT
              !.state = CLOSED,
              !.timers = IF w.closingTimer THEN {t \in @ : t.kind # "closing"} ELSE @,
              !.closingTimer = FALSE],
           <<createFinPacket(w.nextSequence)>>, <<CloseEvent(1000, "", TRUE)>>)
  ELSE Eff(w, <<>>, <<>>)

\* handleFin() that does not look at the state
handleFin_AnyState(w) ==
  Eff([w EXCEPT
         !.state = CLOSED,
         !.timers = IF w.closingTimer THEN {t \in @ : t.kind # "closing"} ELSE @,
         !.closingTimer = FALSE],
      <<>>, <<CloseEvent(1000, "", TRUE)>>)

\* handleFin() that leaves the closing timer pending
handleFin_KeepsTimer(w) ==
  IF w.state = OPEN \/ w.state = CLOSING
  THEN Eff([w EXCEPT !.state = CLOSED], <<>>, <<CloseEvent(1000, "", TRUE)>>)
  ELSE Eff(w, <<>>, <<>>)

\* handleFin()
handleFin(w) ==
  IF w.state = OPEN \/ w.state = CLOSING
  THEN Eff([w EXCEPT
              !.state = CLOSED,
              !.timers = IF w.closingTimer THEN {t \in @ : t.kind # "closing"} ELSE @,
              !.closingTimer = FALSE],
           <<>>, <<CloseEvent(1000, "", TRUE)>>)
  ELSE Eff(w, <<>>, <<>>)

\* handleCompleteMessage(data) with binaryType "arraybuffer"
handleCompleteMessage(w, data) == Eff(w, <<>>, <<MessageEvent(data)>>)

RECURSIVE SumFragmentSizes(_, _)
SumFragmentSizes(frags, keys) ==
  IF keys = {} THEN 0
  ELSE LET k == CHOOSE x \in keys : TRUE
       IN  Len(frags[k]) + SumFragmentSizes(frags, keys \ {k})

RECURSIVE ConcatFragments(_, _, _)
ConcatFragments(frags, i, total) ==
  IF i >= total THEN <<>>
  ELSE (IF i \in DOMAIN frags THEN frags[i] ELSE <<>>) \o ConcatFragments(frags, i + 1, total)

\* reassembleMessage(fragmented): a zero-filled array of the size of all stored
\* fragments, filled from the front with fragments 0..totalFragments-1 that exist
reassembleMessage(fragmented) ==
  LET totalSize == SumFragmentSizes(fragmented.receivedFragments,
                                    DOMAIN fragmented.receivedFragments)
      filled == ConcatFragments(fragmented.receivedFragments, 0, fragmented.totalFragments)
  IN  filled \o [i \in 1..(totalSize - Len(filled)) |-> 0]

\* a handleData that also delivers a payload of the size of a fragment header as it is
handleData_DirectUpToHeader(w, payload) ==
  IF w.state # OPEN THEN Eff(w, <<>>, <<>>)
  ELSE IF Len(payload) <= FragmentHeaderSize THEN handleCompleteMessage(w, payload)
  ELSE
    LET fragmentId == SubSeq(payload, 1, 4)
        fragmentIndex == payload[5]
        isLastFragment == fragmentIndex >= 128
        actualIndex == fragmentIndex % 128
        fragmentData == Slice(payload, FragmentHeaderSize, Len(payload))
        existing == IF MapHas(w.fragmentedMessages, fragmentId)
                    THEN w.fragmentedMessages[fragmentId]
                    ELSE [totalFragments |-> IF isLastFragment THEN actualIndex + 1 ELSE -1,
                          receivedFragments |-> EmptyMap]
        fragmented ==
          [totalFragments |-> IF isLastFragment THEN actualIndex + 1
                              ELSE existing.totalFragments,
           receivedFragments |-> MapSet(existing.receivedFragments, actualIndex, fragmentData)]
    IN  IF fragmented.totalFragments > 0
           /\ Cardinality(DOMAIN fragmented.receivedFragments) = fragmented.totalFragments
        THEN handleCompleteMessage(
               [w EXCEPT !.fragmentedMessages = MapDelete(@, fragmentId)],
               reassembleMessage(fragmented))
        ELSE Eff([w EXCEPT !.fragmentedMessages = MapSet(@, fragmentId, fragmented)],
                 <<>>, <<>>)

\* a handleData that delivers what it holds as soon as the last fragment is in
handleData_DeliversOnLast(w, payload) ==
  IF w.state # OPEN THEN Eff(w, <<>>, <<>>)
  ELSE IF Len(payload) < FragmentHeaderSize THEN handleCompleteMessage(w, payload)
  ELSE
    LET fragmentId == SubSeq(payload, 1, 4)
        fragmentIndex == payload[5]
        isLastFragment == fragmentIndex >= 128
        actualIndex == fragmentIndex % 128
        fragmentData == Slice(payload, FragmentHeaderSize, Len(payload))
        existing == IF MapHas(w.fragmentedMessages, fragmentId)
                    THEN w.fragmentedMessages[fragmentId]
                    ELSE [totalFragments |-> IF isLastFragment THEN actualIndex + 1 ELSE -1,
                          receivedFragments |-> EmptyMap]
        fragmented ==
          [totalFragments |-> IF isLastFragment THEN actualIndex + 1
                              ELSE existing.totalFragments,
           receivedFragments |-> MapSet(existing.receivedFragments, actualIndex, fragmentData)]
    IN  IF isLastFragment
        THEN handleCompleteMessage(
               [w EXCEPT !.fragmentedMessages = MapDelete(@, fragmentId)],
               reassembleMessage(fragmented))
        ELSE Eff([w EXCEPT !.fragmentedMessages = MapSet(@, fragmentId, fragmented)],
                 <<>>, <<>>)

\* handleData(payload)
handleData(w, payload) ==
  IF w.state # OPEN THEN Eff(w, <<>>, <<>>)
  ELSE IF Len(payload) < FragmentHeaderSize THEN handleCompleteMessage(w, payload)
  ELSE
    LET fragmentId == SubSeq(payload, 1, 4)
        fragmentIndex == payload[5]
        isLastFragment == fragmentIndex >= 128
        actualIndex == fragmentIndex % 128
        fragmentData == Slice(payload, FragmentHeaderSize, Len(payload))
        existing == IF MapHas(w.fragmentedMessages, fragmentId)
                    THEN w.fragmentedMessages[fragmentId]
                    ELSE [totalFragments |-> IF isLastFragment THEN actualIndex + 1 ELSE -1,
                          receivedFragments |-> EmptyMap]
        fragmented ==
          [totalFragments |-> IF isLastFragment THEN actualIndex + 1
                              ELSE existing.totalFragments,
           receivedFragments |-> MapSet(existing.receivedFragments, actualIndex, fragmentData)]
    IN  IF fragmented.totalFragments > 0
           /\ Cardinality(DOMAIN fragmented.receivedFragments) = fragmented.totalFragments
        THEN handleCompleteMessage(
               [w EXCEPT !.fragmentedMessages = MapDelete(@, fragmentId)],
               reassembleMessage(fragmented))
        ELSE Eff([w EXCEPT !.fragmentedMessages = MapSet(@, fragmentId, fragmented)],
                 <<>>, <<>>)

\* a dispatch that does not look at isDuplicate
dispatch_Redelivers(w, result) ==
  IF result.null THEN Eff(w, <<>>, <<>>)
  ELSE IF HasFlag(result.flags, SYN) THEN handleSyn(w)
  ELSE IF HasFlag(result.flags, FIN) THEN handleFin(w)
  ELSE IF HasFlag(result.flags, DATA) THEN handleData(w, result.payload)
  ELSE Eff(w, <<>>, <<>>)

\* handleReceivedData once the engine has returned result and left the endpoint w
dispatch(w, result) ==
  IF result.null THEN Eff(w, <<>>, <<>>)
  ELSE IF result.isDuplicate THEN Eff(w, <<>>, <<>>)
  ELSE IF HasFlag(result.flags, SYN) THEN handleSyn(w)
  ELSE IF HasFlag(result.flags, FIN) THEN handleFin(w)
  ELSE IF HasFlag(result.flags, DATA) THEN handleData(w, result.payload)
  ELSE Eff(w, <<>>, <<>>)

\* handleReceivedData from the return of handleReceivedPacket on
handleResult(r) == Then(r.eff, dispatch(r.eff.w, r.result))

\* handleReceivedData(data): the communicator's onReceive callback
handleReceivedData(w, data) ==
  CHOOSE eff \in {handleResult(r) : r \in {handleReceivedPacket(w, data)}} : TRUE

\* a handleError that gives the connection up
handleError_Closes(w) ==
  Eff([w EXCEPT !.state = CLOSED], <<>>, <<ErrorEvent, CloseEvent(1006, "", FALSE)>>)

\* handleError(error): the communicator's onError callback
handleError(w) == Eff(w, <<>>, <<ErrorEvent>>)

\* Math.ceil(a / b) for a >= 0, b > 0
Ceil(a, b) == (a + b - 1) \div b

\* i | 0x80
Or80(i) == IF (i \div 128) % 2 = 1 THEN i ELSE i + 128

\* the body of the fragment loop of sendMessage, for one i
sendFragment(w, data, fragmentId, i, totalFragments) ==
  LET start == i * maxPacketPayloadSize
      end == IF start + maxPacketPayloadSize < Len(data)
             THEN start + maxPacketPayloadSize ELSE Len(data)
      fragment == Slice(data, start, end)
      isLast == i = totalFragments - 1
      fragmentHeader == U32LE(fragmentId) \o <<(IF isLast THEN Or80(i) ELSE i) % 256>>
  IN  sendPacket(w, fragmentHeader \o fragment, DATA)

\* the iterations lo, lo+1, .., hi-1 of the fragment loop, in this order: those of
\* the first half of the range, then those of the second half from where the first
\* left the endpoint
RECURSIVE sendFragmentRange(_, _, _, _, _, _), sendRest(_, _, _, _, _, _)
sendFragmentRange(w, data, fragmentId, lo, hi, totalFragments) ==
  IF lo >= hi THEN Eff(w, <<>>, <<>>)
  ELSE IF hi = lo + 1 THEN sendFragment(w, data, fragmentId, lo, totalFragments)
  ELSE CHOOSE eff \in {sendRest(one, data, fragmentId, (lo + hi) \div 2, hi, totalFragments) :
                         one \in {sendFragmentRange(w, data, fragmentId, lo,
                                                    (lo + hi) \div 2, totalFragments)}} : TRUE

\* the iterations lo .. hi-1, after the iterations before them had effect one
sendRest(one, data, fragmentId, lo, hi, totalFragments) ==
  Then(one, sendFragmentRange(one.w, data, fragmentId, lo, hi, totalFragments))

\* the fragment loop of sendMessage for i, i+1, .., totalFragments-1
sendFragments(w, data, fragmentId, i, totalFragments) ==
  sendFragmentRange(w, data, fragmentId, i, totalFragments, totalFragments)

\* sendMessage(data)
sendMessage(w, data) ==
  LET fragmentId == w.nextFragmentId
      w1 == [w EXCEPT !.nextFragmentId = @ + 1]
      totalFragments == Ceil(Len(data), maxPacketPayloadSize)
  IN  IF totalFragments = 1 THEN sendPacket(w1, data, DATA)
      ELSE sendFragments(w1, data, fragmentId, 0, totalFragments)

\* what send() is given: a message is a sequence of bytes (an ArrayBuffer, a view
\* copied to one, or the UTF-8 bytes of a string); a Blob is a sequence that holds
\* no byte
Blob == <<-1>>

\* send(data) without the check of the state
send_Unchecked(w, data) ==
  IF data = Blob
  THEN [eff |-> Eff(w, <<>>, <<>>), error |-> "Blob sending not yet implemented"]
  ELSE [eff |-> sendMessage(w, data), error |-> ""]

\* send(data): the effect and the error thrown, "" when none
send(w, data) ==
  IF w.state # OPEN
  THEN [eff |-> Eff(w, <<>>, <<>>), error |-> "WebSocket is not open"]
  ELSE IF data = Blob
  THEN [eff |-> Eff(w, <<>>, <<>>), error |-> "Blob sending not yet implemented"]
  ELSE [eff |-> sendMessage(w, data), error |-> ""]

\* close from the setTimeout on: the closing timer is armed
armClosingTimer(eff, code, reason) ==
  Eff([eff.w EXCEPT !.closingTimer = TRUE,
                    !.timers = @ \cup {ClosingTimeout(code, reason)}],
      eff.sent, eff.events)

\* close after communicator.send(finPacket) has returned with effect c
sendSecondFin(c) == Then(c, sendPacket(c.w, <<>>, FIN))

\* close once getNextSequence() has returned n: the FIN with that sequence is handed
\* to the carrier, then an empty payload flagged FIN goes through the engine
sendFin(n, code, reason) ==
  armClosingTimer(sendSecondFin(communicatorSend(n.w, createFinPacket(n.seq))),
                  code, reason)

\* close(code, reason) that returns early only when CLOSED
close_Reentrant(w, code, reason) ==
  IF w.state = CLOSED THEN Eff(w, <<>>, <<>>)
  ELSE CHOOSE eff \in {sendFin(n, code, reason) :
                         n \in {getNextSequence([w EXCEPT !.state = CLOSING])}} : TRUE

\* close(code, reason) that sends the FIN through the engine only
close_SingleFin(w, code, reason) ==
  IF w.state = CLOSED \/ w.state = CLOSING THEN Eff(w, <<>>, <<>>)
  ELSE armClosingTimer(sendPacket([w EXCEPT !.state = CLOSING], <<>>, FIN), code, reason)

\* close(code, reason)
close(w, code, reason) ==
  IF w.state = CLOSED \/ w.state = CLOSING THEN Eff(w, <<>>, <<>>)
  ELSE
    CHOOSE eff \in {sendFin(n, code, reason) :
                      n \in {getNextSequence([w EXCEPT !.state = CLOSING])}} : TRUE

\* a connection timer callback that closes without code and reason
connectionTimerCallback_NoCode(w) ==
  IF w.state = CONNECTING
  THEN close([w EXCEPT !.timers = @ \ {ConnectionTimeout}], Undefined, Undefined)
  ELSE Eff([w EXCEPT !.timers = @ \ {ConnectionTimeout}], <<>>, <<>>)

\* the callback of the connection timer (establishConnection)
connectionTimerCallback(w) ==
  LET w1 == [w EXCEPT !.timers = @ \ {ConnectionTimeout}]
  IN  IF w1.state = CONNECTING
      THEN close(w1, Some(1006), Some("Connection timeout"))
      ELSE Eff(w1, <<>>, <<>>)

\* a closing timer callback that does not set the state
closingTimerCallback_KeepsState(w, t) ==
  Eff([w EXCEPT !.timers = @ \ {t}, !.closingTimer = FALSE],
      <<>>,
      <<CloseEvent(OrElse(t.code, 0, 1000), OrElse(t.reason, "", ""), FALSE)>>)

\* a closing timer callback that reports a clean close
closingTimerCallback_Clean(w, t) ==
  Eff([w EXCEPT !.state = CLOSED,
                !.timers = @ \ {t},
                !.closingTimer = FALSE],
      <<>>,
      <<CloseEvent(OrElse(t.code, 0, 1000), OrElse(t.reason, "", ""), TRUE)>>)

\* a closing timer callback whose code defaults to 1006
closingTimerCallback_Abnormal(w, t) ==
  Eff([w EXCEPT !.state = CLOSED,
                !.timers = @ \ {t},
                !.closingTimer = FALSE],
      <<>>,
      <<CloseEvent(OrElse(t.code, 0, 1006), OrElse(t.reason, "", ""), FALSE)>>)

\* the callback of the closing timer t (close)
closingTimerCallback(w, t) ==
  Eff([w EXCEPT !.state = CLOSED,
                !.timers = @ \ {t},
                !.closingTimer = FALSE],
      <<>>,
      <<CloseEvent(OrElse(t.code, 0, 1000), OrElse(t.reason, "", ""), FALSE)>>)

(***************************************************************************)
(* The system: endpoints, each on its own communicator.  With one endpoint  *)
(* the communicator is an unconnected mock driven by simulateReceive and    *)
(* simulateError (the unit tests); with two, what one endpoint hands to its *)
(* communicator travels in order, unchanged, to the other endpoint.         *)
(***************************************************************************)
VARIABLES
  ws,       \* endpoint name -> the ReliableWebSocket (with its ReliabilityManager)
  wire,     \* endpoint name -> the buffers in flight towards that endpoint
  op,       \* the operation that ran last
  sent,     \* the buffers it handed to communicator.send, in order
  events,   \* the events it fired, in order
  hist,     \* endpoint name -> what the endpoint's user has observed so far
  log       \* endpoint name -> what a test that inspects the carrier has recorded

vars == <<ws, wire, op, sent, events, hist, log>>

\* the messages given to send(): the empty one, one shorter than a fragment header,
\* and those up to MaxMsgLen bytes (the last ones longer than maxPacketPayloadSize)
Messages ==
  {<<>>} \cup {createTestPayload(n) : n \in (FragmentHeaderSize - 1)..MaxMsgLen}

TestSequences == {U32LE(n) : n \in 0..MaxTestSeq}

TestPayloads == {createTestPayload(4)}

\* the buffers the tests build with createSynPacket, createFinPacket and createTestPacket
TestPackets ==
  {createSynPacket}
    \cup {createFinPacket(q) : q \in TestSequences}
    \cup {createTestPacket(q, ACK, <<>>) : q \in TestSequences}
    \cup {createTestPacket(q, DATA, p) : q \in TestSequences, p \in TestPayloads}

\* close(), close(4000, "bye") and close(0, "")
CloseArgs ==
  {<<Undefined, Undefined>>, <<Some(4000), Some("bye")>>, <<Some(0), Some("")>>}

NoHistory == [messages |-> <<>>, opens |-> 0, closes |-> <<>>, accepted |-> <<>>]

\* the carrier's record before anything was handed to it
NoLog == [carried |-> EmptyMap, engine |-> {}, acked |-> {}, exhausted |-> {}]

\* what operations that return nothing return, and those that throw nothing throw
NoResult == [error |-> ""]

\* the last operation: its name, the endpoint it ran on, the state it found, its
\* arguments and what it returned or threw
Operation(name, e, arg, result) ==
  [name |-> name, e |-> e, from |-> ws[e].state, arg |-> arg, result |-> result]

RECURSIVE Observe(_, _)
Observe(h, evs) ==
  IF evs = <<>> THEN h
  ELSE LET ev == Head(evs)
           h1 == IF ev.type = "message" THEN [h EXCEPT !.messages = Append(@, ev.data)]
                 ELSE IF ev.type = "open" THEN [h EXCEPT !.opens = @ + 1]
                 ELSE IF ev.type = "close" THEN [h EXCEPT !.closes = Append(@, ev)]
                 ELSE h
       IN  Observe(h1, Tail(evs))

Peer(e) == CHOOSE p \in DOMAIN ws : p # e

Connected == Cardinality(DOMAIN ws) = 2

\* endpoint e has run code with effect eff
Apply(e, eff, operation) ==
  /\ ws' = [ws EXCEPT ![e] = eff.w]
  /\ sent' = eff.sent
  /\ events' = eff.events
  /\ op' = operation
  /\ hist' = [hist EXCEPT ![e] = Observe(@, eff.events)]

\* MockUnreliableCommunicator.send of an unconnected mock keeps the buffer only in
\* its log; a connected carrier delivers it to the peer
Carry(e, buffers, w) ==
  IF Connected THEN [w EXCEPT ![Peer(e)] = @ \o buffers] ELSE w

\* mockComm.simulateReceive(data)
Receive(e, data) ==
  /\ \E eff \in {handleReceivedData(ws[e], data)},
        r \in {handleReceivedPacket(ws[e], data).result} :
       Apply(e, eff, Operation("receive", e, [data |-> data], r))
  /\ wire' = Carry(e, sent', wire)

\* the carrier delivers the oldest buffer in flight towards e
Deliver(e) ==
  /\ wire[e] # <<>>
  /\ \E data \in {Head(wire[e])} :
       \E eff \in {handleReceivedData(ws[e], data)},
          r \in {handleReceivedPacket(ws[e], data).result} :
         Apply(e, eff, Operation("receive", e, [data |-> data], r))
  /\ wire' = Carry(e, sent', [wire EXCEPT ![e] = Tail(@)])

\* ws.send(data)
Send(e, data) ==
  /\ Len(hist[e].accepted) < MaxSends
  /\ \E r \in {send(ws[e], data)} :
       /\ ws' = [ws EXCEPT ![e] = r.eff.w]
       /\ sent' = r.eff.sent
       /\ events' = r.eff.events
       /\ op' = Operation("send", e, [data |-> data], [error |-> r.error])
       /\ hist' = [hist EXCEPT ![e].accepted = IF r.error = "" THEN Append(@, data) ELSE @]
  /\ wire' = Carry(e, sent', wire)

\* ws.close(code, reason)
Close(e, code, reason) ==
  /\ \E eff \in {close(ws[e], code, reason)} :
       Apply(e, eff, Operation("close", e, [code |-> code, reason |-> reason], NoResult))
  /\ wire' = Carry(e, sent', wire)

\* the connection timer of e expires
ConnectionTimerFires(e) ==
  /\ ConnectionTimeout \in ws[e].timers
  /\ \E eff \in {connectionTimerCallback(ws[e])} :
       Apply(e, eff, Operation("connectionTimer", e, [timer |-> ConnectionTimeout], NoResult))
  /\ wire' = Carry(e, sent', wire)

\* the closing timer of e expires; it was armed after the connection timer with the
\* same delay, so it expires after it
ClosingTimerFires(e, t) ==
  /\ t \in ws[e].timers
  /\ t.kind = "closing"
  /\ ConnectionTimeout \notin ws[e].timers
  /\ \E eff \in {closingTimerCallback(ws[e], t)} :
       Apply(e, eff, Operation("closingTimer", e, [timer |-> t], NoResult))
  /\ wire' = Carry(e, sent', wire)

\* a retransmission timer of e expires
RetransmissionTimerFires(e, t) ==
  /\ t \in ws[e].timers
  /\ t.kind = "retransmit"
  /\ \E eff \in {scheduleNext(ws[e], t)} :
       Apply(e, eff, Operation("retransmissionTimer", e, [timer |-> t], NoResult))
  /\ wire' = Carry(e, sent', wire)

\* mockComm.simulateError(error)
CarrierError(e) ==
  /\ Apply(e, handleError(ws[e]), Operation("error", e, [error |-> "error"], NoResult))
  /\ wire' = Carry(e, sent', wire)

(***************************************************************************)
(* Spec: one endpoint "A" on an unconnected mock communicator.              *)
(***************************************************************************)
Init ==
  /\ ws = [e \in {"A"} |-> Construct.w]
  /\ wire = [e \in {"A"} |-> <<>>]
  /\ op = [name |-> "constructor", e |-> "A", from |-> CONNECTING,
           arg |-> [config |-> "config"], result |-> NoResult]
  /\ sent = Construct.sent
  /\ events = Construct.events
  /\ hist = [e \in {"A"} |-> NoHistory]
  /\ log = [e \in {"A"} |-> NoLog]

Next ==
  /\ \/ \E data \in TestPackets : Receive("A", data)
     \/ \E data \in Messages \cup {Blob} : Send("A", data)
     \/ \E a \in CloseArgs : Close("A", a[1], a[2])
     \/ ConnectionTimerFires("A")
     \/ \E t \in ws["A"].timers : ClosingTimerFires("A", t)
     \/ \E t \in ws["A"].timers : RetransmissionTimerFires("A", t)
     \/ CarrierError("A")
  /\ UNCHANGED log

Spec == Init /\ [][Next]_vars

(***************************************************************************)
(* SpecTimeout: the endpoint "A" of Spec when the carrier never brings a    *)
(* SYN or a FIN.  Pending timers expire: setTimeout callbacks do run.       *)
(***************************************************************************)
NoHandshakePackets ==
  {createTestPacket(q, ACK, <<>>) : q \in TestSequences}
    \cup {createTestPacket(q, DATA, p) : q \in TestSequences, p \in TestPayloads}

NextTimeout ==
  /\ \/ \E data \in NoHandshakePackets : Receive("A", data)
     \/ \E data \in Messages \cup {Blob} : Send("A", data)
     \/ \E a \in CloseArgs : Close("A", a[1], a[2])
     \/ ConnectionTimerFires("A")
     \/ \E t \in ws["A"].timers : ClosingTimerFires("A", t)
     \/ \E t \in ws["A"].timers : RetransmissionTimerFires("A", t)
     \/ CarrierError("A")
  /\ UNCHANGED log

SpecTimeout ==
  /\ Init
  /\ [][NextTimeout]_vars
  /\ WF_vars(ConnectionTimerFires("A") /\ UNCHANGED log)
  /\ WF_vars((\E t \in ws["A"].timers : ClosingTimerFires("A", t)) /\ UNCHANGED log)
  /\ WF_vars((\E t \in ws["A"].timers : RetransmissionTimerFires("A", t)) /\ UNCHANGED log)

(***************************************************************************)
(* SpecPair: endpoints "A" and "B", each constructed on its end of a        *)
(* carrier that delivers what the other hands to it in order and unchanged. *)
(* The SYN each sent at construction is in flight.  The handshake completes *)
(* before the connection timers expire, nobody closes, and "A" is the one   *)
(* that sends.                                                             *)
(***************************************************************************)
Endpoints == {"A", "B"}

BothOpen == \A e \in Endpoints : ws[e].state = OPEN

InitPair ==
  /\ ws = [e \in Endpoints |-> Construct.w]
  /\ wire = [e \in Endpoints |-> Construct.sent]
  /\ op = [name |-> "constructor", e |-> "B", from |-> CONNECTING,
           arg |-> [config |-> "config"], result |-> NoResult]
  /\ sent = Construct.sent
  /\ events = Construct.events
  /\ hist = [e \in Endpoints |-> NoHistory]
  /\ log = [e \in Endpoints |-> NoLog]

NextPair ==
  /\ \/ \E e \in Endpoints : Deliver(e)
     \/ \E data \in Messages : BothOpen /\ Send("A", data)
     \/ \E e \in Endpoints : \E t \in ws[e].timers : RetransmissionTimerFires(e, t)
  /\ UNCHANGED log

SpecPair == InitPair /\ [][NextPair]_vars

\* SpecPair on a carrier that loses nothing: what is in flight is delivered
SpecPairLive ==
  /\ InitPair
  /\ [][NextPair]_vars
  /\ WF_vars(Deliver("A") /\ UNCHANGED log)
  /\ WF_vars(Deliver("B") /\ UNCHANGED log)

(***************************************************************************)
(* SpecHandshake: the pair of SpecPair from the moment both endpoints are   *)
(* constructed, on a carrier that loses nothing it is handed once both ends *)
(* are subscribed.  The SYN of "B", constructed last, is in flight towards  *)
(* "A"; the SYN "A" sent at construction is in flight towards "B", or was   *)
(* handed to the carrier before "B" subscribed and is gone.                 *)
(***************************************************************************)
InitHandshake ==
  /\ ws = [e \in Endpoints |-> Construct.w]
  /\ wire \in {[e \in Endpoints |-> Construct.sent],
               [e \in Endpoints |-> IF e = "A" THEN Construct.sent ELSE <<>>]}
  /\ op = [name |-> "constructor", e |-> "B", from |-> CONNECTING,
           arg |-> [config |-> "config"], result |-> NoResult]
  /\ sent = Construct.sent
  /\ events = Construct.events
  /\ hist = [e \in Endpoints |-> NoHistory]
  /\ log = [e \in Endpoints |-> NoLog]

SpecHandshake ==
  /\ InitHandshake
  /\ [][NextPair]_vars
  /\ WF_vars(Deliver("A") /\ UNCHANGED log)
  /\ WF_vars(Deliver("B") /\ UNCHANGED log)

(***************************************************************************)
(* SpecWindow: the endpoint "A" of Spec after the carrier has brought it    *)
(* DATA packets with the sequences 1 .. windowSize - 1 while it was still   *)
(* CONNECTING: they were acknowledged and marked as received, and none was  *)
(* dispatched.  One more new sequence fills the window.  The test keeps the *)
(* sequences the endpoint accepted as new, in order.                       *)
(***************************************************************************)
WindowPacket(n) == createTestPacket(U32LE(n), DATA, createTestPayload(4))

\* the endpoint after simulateReceive of the DATA packets with sequences lo .. hi
RECURSIVE ReceiveRange(_, _, _)
ReceiveRange(w, lo, hi) ==
  IF lo > hi THEN w
  ELSE IF lo = hi THEN handleReceivedData(w, WindowPacket(lo)).w
  ELSE CHOOSE r \in {ReceiveRange(m, ((lo + hi) \div 2) + 1, hi) :
                       m \in {ReceiveRange(w, lo, (lo + hi) \div 2)}} : TRUE

\* the oldest sequences of the window, the newest one, and three new ones
WindowPackets ==
  {createSynPacket}
    \cup {WindowPacket(n) : n \in 1..MaxEvictions}
    \cup {WindowPacket(n) : n \in (windowSize - 1)..(windowSize + 2)}

InitWindow ==
  /\ \E w \in {ReceiveRange(Construct.w, 1, windowSize - 2)} :
       \E eff \in {handleReceivedData(w, WindowPacket(windowSize - 1))},
          r \in {handleReceivedPacket(w, WindowPacket(windowSize - 1)).result} :
         /\ ws = [e \in {"A"} |-> eff.w]
         /\ sent = eff.sent
         /\ events = eff.events
         /\ op = [name |-> "receive", e |-> "A", from |-> w.state,
                  arg |-> [data |-> WindowPacket(windowSize - 1)], result |-> r]
  /\ wire = [e \in {"A"} |-> <<>>]
  /\ hist = [e \in {"A"} |-> NoHistory]
  /\ log = [e \in {"A"} |-> [accepted |-> [i \in 1..(windowSize - 1) |-> U32LE(i)]]]

\* fewer than MaxEvictions of the sequences 1, 2, .. have left the window
FewEvictions(w) ==
  Head(w.receivedSequenceWindow) \in {U32LE(n) : n \in 1..MaxEvictions}

\* the accepted sequences after the last operation
Accepted(l, o) ==
  IF o.result.null THEN l
  ELSE IF o.result.isDuplicate THEN l
  ELSE [l EXCEPT !.accepted = Append(@, o.result.sequence)]

NextWindow ==
  /\ FewEvictions(ws["A"])
  /\ \E data \in WindowPackets : Receive("A", data)
  /\ log' = [log EXCEPT !["A"] = Accepted(@, op')]

SpecWindow == InitWindow /\ [][NextWindow]_vars

(***************************************************************************)
(* SpecCodec: packet.ts on its own.  A test picks a sequence, flags and a   *)
(* payload, calls encodePacket and hands the buffer to decodePacket.  No    *)
(* endpoint exists; op holds the call and what it returned, sent the        *)
(* encoded buffer.                                                         *)
(***************************************************************************)
\* the largest payload the 16-bit length field can announce
MaxPayloadLength == 65535

\* sequences with a byte set in each position, and the largest one
CodecSequences ==
  {U32LE(0), U32LE(1), U32LE(256), U32LE(16777216), <<255, 255, 255, 255>>}

\* every flags byte with the payloads up to MaxMsgLen bytes, the payloads around the
\* carry of the length field's low byte, and the largest payload
CodecInputs ==
  {[sequence |-> q, flags |-> f, payload |-> createTestPayload(n)] :
     q \in {U32LE(1), <<255, 255, 255, 255>>}, f \in 0..255, n \in 0..MaxMsgLen}
    \cup {[sequence |-> q, flags |-> f, payload |-> createTestPayload(n)] :
            q \in CodecSequences, f \in {DATA, ACK, SYN, FIN}, n \in {255, 256, 257}}
    \cup {[sequence |-> q, flags |-> DATA, payload |-> createTestPayload(MaxPayloadLength)] :
            q \in {U32LE(1), <<255, 255, 255, 255>>}}

InitCodec ==
  /\ ws = EmptyMap
  /\ wire = EmptyMap
  /\ hist = EmptyMap
  /\ log = EmptyMap
  /\ events = <<>>
  /\ sent = <<>>
  /\ \E input \in CodecInputs :
       op = [name |-> "input", e |-> "test", from |-> CLOSED, arg |-> input,
             result |-> NoPacket]

\* encodePacket(sequence, flags, payload)
Encode ==
  /\ op.name = "input"
  /\ sent' = <<encodePacket(op.arg.sequence, op.arg.flags, op.arg.payload)>>
  /\ op' = [op EXCEPT !.name = "encodePacket"]
  /\ UNCHANGED <<ws, wire, hist, log, events>>

\* decodePacket(data) on the buffer encodePacket returned
Decode ==
  /\ op.name = "encodePacket"
  /\ op' = [op EXCEPT !.name = "decodePacket", !.result = decodePacket(sent[1])]
  /\ UNCHANGED <<ws, wire, hist, log, events, sent>>

NextCodec == Encode \/ Decode

SpecCodec == InitCodec /\ [][NextCodec]_vars

(***************************************************************************)
(* SpecCorrupt: the endpoint "A" of Spec on a carrier that also brings      *)
(* buffers that do not decode: packets with one byte changed, as the        *)
(* corrupting mock and the tests produce them, and truncated packets.  The  *)
(* DATA packets it brings carry a fragment, so that fragment buffers fill.  *)
(***************************************************************************)
FragmentPacket ==
  createTestPacket(U32LE(MaxTestSeq), DATA, createTestPayload(FragmentHeaderSize))

IntactPackets ==
  {createSynPacket, FragmentPacket, createTestPacket(U32LE(1), ACK, <<>>)}

\* one byte changed in the sequence, the flags, the length (which then announces a
\* byte more than there is) or the payload of a DATA packet, or in the checksum of
\* an ACK; and a packet cut below the size of the header
CorruptPackets ==
  {corruptPacket(FragmentPacket, i) :
     i \in {0, SEQUENCE_SIZE + CHECKSUM_SIZE, SEQUENCE_SIZE + CHECKSUM_SIZE + FLAGS_SIZE,
            PACKET_HEADER_SIZE}}
    \cup {corruptPacket(createTestPacket(U32LE(1), ACK, <<>>), SEQUENCE_SIZE)}
    \cup {Slice(FragmentPacket, 0, PACKET_HEADER_SIZE - 1)}

NextCorrupt ==
  /\ \/ \E data \in IntactPackets : Receive("A", data)
     \/ \E data \in CorruptPackets : Receive("A", data)
     \/ \E data \in Messages : Send("A", data)
     \/ Close("A", Undefined, Undefined)
     \/ ConnectionTimerFires("A")
     \/ \E t \in ws["A"].timers : ClosingTimerFires("A", t)
     \/ \E t \in ws["A"].timers : RetransmissionTimerFires("A", t)
  /\ UNCHANGED log

SpecCorrupt == Init /\ [][NextCorrupt]_vars

(***************************************************************************)
(* SpecEngine: the endpoint "A" of Spec, on a carrier that brings it SYN    *)
(* and ACK packets only, under a test that keeps a record of what the       *)
(* endpoint hands to the carrier (MockUnreliableCommunicator.sentPackets,   *)
(* filtered as the tests filter it) and of what became of every sequence    *)
(* the engine sent.                                                        *)
(***************************************************************************)
\* how often the buffer occurs among the buffers
CountIn(buffers, b) == Cardinality({i \in 1..Len(buffers) : buffers[i] = b})

\* sentPackets without the ACKs, as the number of times each buffer occurs, once
\* the buffers were pushed
Carried(c, buffers) ==
  LET new == {buffers[i] : i \in {j \in 1..Len(buffers) : FlagsOf(buffers[j]) # ACK}}
  IN  [b \in (DOMAIN c) \cup new |->
         (IF b \in DOMAIN c THEN c[b] ELSE 0) + CountIn(buffers, b)]

\* the sequences from a up to, not including, b
RECURSIVE SeqRange(_, _)
SeqRange(a, b) == IF a = b THEN {} ELSE {a} \cup SeqRange(Inc32(a), b)

\* the sequences sendPacket consumed in a step from w to w1: all that
\* getNextSequence handed out, but the first one of a close(), which goes to the
\* FIN that close() hands to the carrier itself
EngineSequences(o, w, w1) ==
  IF o.name \in {"close", "connectionTimer"}
  THEN SeqRange(w.nextSequence, w1.nextSequence) \ {w.nextSequence}
  ELSE SeqRange(w.nextSequence, w1.nextSequence)

\* the sequence of a decoded ACK, when the engine has sent that sequence
AckOf(decoded, engine) ==
  IF decoded.null THEN {}
  ELSE IF decoded.flags = ACK /\ decoded.sequence \in engine THEN {decoded.sequence}
  ELSE {}

AckedSequences(o, engine) ==
  IF o.name = "receive" THEN AckOf(decodePacket(o.arg.data), engine) ELSE {}

\* the sequence whose entry a retransmission timer found with its budget used up
ExhaustedSequences(o, w) ==
  IF /\ o.name = "retransmissionTimer"
     /\ MapHas(w.unacknowledgedPackets, o.arg.timer.sequence)
     /\ w.unacknowledgedPackets[o.arg.timer.sequence].attempts >= maxRetransmissionAttempts
  THEN {o.arg.timer.sequence}
  ELSE {}

\* the sequences whose ACK the carrier brought back while it was handed the buffers
EchoedSequences(w, buffers, engine) ==
  IF w.communicator = "echo"
  THEN {SequenceOf(buffers[i]) : i \in {j \in 1..Len(buffers) : FlagsOf(buffers[j]) # ACK}}
         \cap engine
  ELSE {}

\* the record after operation o took the endpoint from w to w1 and handed buffers
\* to the carrier
Track(l, o, w, w1, buffers) ==
  [carried |-> Carried(l.carried, buffers),
   engine |-> l.engine \cup EngineSequences(o, w, w1),
   acked |-> l.acked
               \cup AckedSequences(o, l.engine \cup EngineSequences(o, w, w1))
               \cup EchoedSequences(w, buffers, l.engine \cup EngineSequences(o, w, w1)),
   exhausted |-> l.exhausted \cup ExhaustedSequences(o, w)]

Logged ==
  log' = [e \in DOMAIN log |->
            IF e = op'.e THEN Track(log[e], op', ws[e], ws'[e], sent') ELSE log[e]]

EnginePackets ==
  {createSynPacket} \cup {createTestPacket(q, ACK, <<>>) : q \in TestSequences}

InitEngine ==
  /\ ws = [e \in {"A"} |-> Construct.w]
  /\ wire = [e \in {"A"} |-> <<>>]
  /\ op = [name |-> "constructor", e |-> "A", from |-> CONNECTING,
           arg |-> [config |-> "config"], result |-> NoResult]
  /\ sent = Construct.sent
  /\ events = Construct.events
  /\ hist = [e \in {"A"} |-> NoHistory]
  /\ log = [e \in {"A"} |-> [NoLog EXCEPT !.carried = Carried(EmptyMap, Construct.sent)]]

NextEngine ==
  /\ \/ \E data \in EnginePackets : Receive("A", data)
     \/ \E data \in Messages : Send("A", data)
     \/ \E a \in CloseArgs : Close("A", a[1], a[2])
     \/ ConnectionTimerFires("A")
     \/ \E t \in ws["A"].timers : ClosingTimerFires("A", t)
     \/ \E t \in ws["A"].timers : RetransmissionTimerFires("A", t)
  /\ Logged

SpecEngine == InitEngine /\ [][NextEngine]_vars

(***************************************************************************)
(* SpecEcho: SpecEngine with the endpoint constructed on a carrier that     *)
(* delivers at once to a peer that acknowledges at once, as two connected   *)
(* MockUnreliableCommunicator do: the ACK of every packet that is no ACK    *)
(* is received inside the call of communicator.send.                       *)
(***************************************************************************)
InitEcho ==
  /\ ws = [e \in {"A"} |-> ConstructEcho.w]
  /\ wire = [e \in {"A"} |-> <<>>]
  /\ op = [name |-> "constructor", e |-> "A", from |-> CONNECTING,
           arg |-> [config |-> "config"], result |-> NoResult]
  /\ sent = ConstructEcho.sent
  /\ events = ConstructEcho.events
  /\ hist = [e \in {"A"} |-> NoHistory]
  /\ log = [e \in {"A"} |-> [NoLog EXCEPT !.carried = Carried(EmptyMap, ConstructEcho.sent)]]

NextEcho ==
  /\ \/ \E data \in EnginePackets : Receive("A", data)
     \/ \E data \in Messages : Send("A", data)
     \/ \E a \in CloseArgs : Close("A", a[1], a[2])
     \/ ConnectionTimerFires("A")
     \/ \E t \in ws["A"].timers : ClosingTimerFires("A", t)
     \/ \E t \in ws["A"].timers : RetransmissionTimerFires("A", t)
  /\ Logged

SpecEcho == InitEcho /\ [][NextEcho]_vars

(***************************************************************************)
(* SpecSynchronous: the endpoint of SpecEcho when the only ACKs it gets are *)
(* those its peer sends back inside communicator.send: the test brings it   *)
(* the peer's SYN and nothing else.  Pending retransmission timers expire.  *)
(***************************************************************************)
NextSynchronous ==
  /\ \/ Receive("A", createSynPacket)
     \/ \E data \in Messages : Send("A", data)
     \/ \E a \in CloseArgs : Close("A", a[1], a[2])
     \/ ConnectionTimerFires("A")
     \/ \E t \in ws["A"].timers : ClosingTimerFires("A", t)
     \/ \E t \in ws["A"].timers : RetransmissionTimerFires("A", t)
  /\ UNCHANGED log

SpecSynchronous ==
  /\ InitEcho
  /\ [][NextSynchronous]_vars
  /\ WF_vars((\E t \in ws["A"].timers : RetransmissionTimerFires("A", t)) /\ UNCHANGED log)

(***************************************************************************)
(* SpecReassembly: the endpoint "A" of Spec, OPEN, on a carrier that brings *)
(* it, in any order and any number of times, the DATA packets its peer      *)
(* handed to the carrier for a series of send() calls: two messages that    *)
(* needed three and two fragments and a message shorter than a fragment     *)
(* header, which went out as it was.                                        *)
(***************************************************************************)
PeerMessages ==
  <<createTestPayload(2 * maxPacketPayloadSize + 1),
    [i \in 1..(maxPacketPayloadSize + 1) |-> 100 + i],
    createTestPayload(FragmentHeaderSize - 1)>>

\* an endpoint that was constructed and has received its peer's SYN
OpenEndpoint == handleReceivedData(Construct.w, createSynPacket).w

\* the peer after its first k send() calls, with all it handed to the carrier
RECURSIVE PeerSends(_)
PeerSends(k) ==
  IF k = 0 THEN Eff(OpenEndpoint, <<>>, <<>>)
  ELSE CHOOSE eff \in {Then(before, send(before.w, PeerMessages[k]).eff) :
                         before \in {PeerSends(k - 1)}} : TRUE

\* the packets of the peer's k-th send()
PacketsOf(k) == send(PeerSends(k - 1).w, PeerMessages[k]).eff.sent

\* the test's record of the peer's send() calls: the message given and the packets
\* the peer handed to the carrier for it
PeerRecord ==
  [sends |-> [k \in 1..Len(PeerMessages) |->
                [message |-> PeerMessages[k], packets |-> PacketsOf(k)]]]

\* the packets on the record l
PeerPackets(l) ==
  UNION {{l.sends[k].packets[i] : i \in 1..Len(l.sends[k].packets)} : k \in DOMAIN l.sends}

InitReassembly ==
  /\ ws = [e \in {"A"} |-> OpenEndpoint]
  /\ wire = [e \in {"A"} |-> <<>>]
  /\ op = [name |-> "receive", e |-> "A", from |-> CONNECTING,
           arg |-> [data |-> createSynPacket],
           result |-> handleReceivedPacket(Construct.w, createSynPacket).result]
  /\ sent = handleReceivedData(Construct.w, createSynPacket).sent
  /\ events = handleReceivedData(Construct.w, createSynPacket).events
  /\ hist = [e \in {"A"} |-> Observe(NoHistory, events)]
  /\ log = [e \in {"A"} |-> PeerRecord]

NextReassembly ==
  /\ \E data \in PeerPackets(log["A"]) : Receive("A", data)
  /\ UNCHANGED log

SpecReassembly == InitReassembly /\ [][NextReassembly]_vars

(***************************************************************************)
(* SpecFin: the endpoint "A" of Spec on a carrier that brings it, besides   *)
(* the SYN, the two FIN packets its peer handed to the carrier in close():  *)
(* the one close() transmits itself and the one it sends through the        *)
(* engine.  Each may arrive first, alone, or again (the engine retransmits  *)
(* its FIN; a carrier may duplicate).  "A" may close on its own.            *)
(***************************************************************************)
\* what an OPEN peer that has sent nothing yet hands to the carrier in close()
PeerFins == close(OpenEndpoint, Undefined, Undefined).sent

FinPackets == {createSynPacket} \cup {PeerFins[i] : i \in 1..Len(PeerFins)}

NextFin ==
  /\ \/ \E data \in FinPackets : Receive("A", data)
     \/ \E a \in CloseArgs : Close("A", a[1], a[2])
     \/ ConnectionTimerFires("A")
     \/ \E t \in ws["A"].timers : ClosingTimerFires("A", t)
     \/ \E t \in ws["A"].timers : RetransmissionTimerFires("A", t)
  /\ UNCHANGED log

SpecFin == Init /\ [][NextFin]_vars

(***************************************************************************)
(* SpecLarge: the endpoint "A" of Spec, OPEN, is given one message that     *)
(* needs two, MaxFragments or MaxFragments + 1 fragments, under a test that *)
(* keeps the DATA packets "A" hands to the carrier                          *)
(* (MockUnreliableCommunicator.sentPackets, filtered as the tests filter    *)
(* it) and feeds some of them back to "A": the first two and those from the *)
(* MaxFragments-th on, in any order.                                        *)
(***************************************************************************)
\* the fragment indexes the low 7 bits of the index byte can tell apart
MaxFragments == 128

LargeMessages ==
  {createTestPayload(n) :
     n \in {maxPacketPayloadSize + 1,
            MaxFragments * maxPacketPayloadSize,
            MaxFragments * maxPacketPayloadSize + 1}}

\* the buffers that are DATA packets, in order
DataPackets(buffers) == SelectSeq(buffers, LAMBDA b : FlagsOf(b) = DATA)

\* the positions, in sentPackets, of the packets the test feeds back
Loopback(sentPackets) == {1, 2} \cup (MaxFragments..Len(sentPackets))

InitLarge ==
  /\ ws = [e \in {"A"} |-> OpenEndpoint]
  /\ wire = [e \in {"A"} |-> <<>>]
  /\ op = [name |-> "receive", e |-> "A", from |-> CONNECTING,
           arg |-> [data |-> createSynPacket],
           result |-> handleReceivedPacket(Construct.w, createSynPacket).result]
  /\ sent = handleReceivedData(Construct.w, createSynPacket).sent
  /\ events = handleReceivedData(Construct.w, createSynPacket).events
  /\ hist = [e \in {"A"} |-> Observe(NoHistory, events)]
  /\ log = [e \in {"A"} |-> [sentPackets |-> <<>>]]

NextLarge ==
  \/ /\ \E data \in LargeMessages : Send("A", data)
     /\ log' = [log EXCEPT !["A"].sentPackets = @ \o DataPackets(sent')]
  \/ /\ \E i \in Loopback(log["A"].sentPackets) \cap DOMAIN log["A"].sentPackets :
          Receive("A", log["A"].sentPackets[i])
     /\ UNCHANGED log

SpecLarge == InitLarge /\ [][NextLarge]_vars

(***************************************************************************)
(* SpecSequence: the endpoint "A" of Spec, either just constructed or OPEN  *)
(* after a long life: it has sent 2^30 - 1 messages of four fragments and   *)
(* one of a single packet, 2^32 - 3 packets in all, every one acknowledged, *)
(* so that its sequence counter is two short of wrapping.  The test keeps   *)
(* the sequences of the packets, other than ACK and SYN, that send() and    *)
(* close() hand to the carrier, in order.                                   *)
(***************************************************************************)
MaxSequence == <<255, 255, 255, 255>>

LongLived ==
  [OpenEndpoint EXCEPT !.nextSequence = <<254, 255, 255, 255>>,
                       !.nextFragmentId = 1073741825]

\* the buffers that are neither ACK nor SYN, in order
Sequenced(buffers) == SelectSeq(buffers, LAMBDA b : FlagsOf(b) # ACK /\ FlagsOf(b) # SYN)

\* the sequences of the buffers, in order
SequencesIn(buffers) == [i \in 1..Len(buffers) |-> SequenceOf(buffers[i])]

\* the operations that run send() or close()
Originating == {"send", "close", "connectionTimer"}

SequencePackets ==
  {createSynPacket, createTestPacket(U32LE(1), DATA, createTestPayload(4)),
   createTestPacket(MaxSequence, ACK, <<>>), createTestPacket(U32LE(0), ACK, <<>>)}

InitSequence ==
  /\ \/ /\ ws = [e \in {"A"} |-> Construct.w]
        /\ op = [name |-> "constructor", e |-> "A", from |-> CONNECTING,
                 arg |-> [config |-> "config"], result |-> NoResult]
        /\ sent = Construct.sent
     \/ /\ ws = [e \in {"A"} |-> LongLived]
        /\ op = [name |-> "receive", e |-> "A", from |-> OPEN,
                 arg |-> [data |-> createAckPacket(<<253, 255, 255, 255>>)],
                 result |-> Null]
        /\ sent = <<>>
  /\ wire = [e \in {"A"} |-> <<>>]
  /\ events = <<>>
  /\ hist = [e \in {"A"} |-> NoHistory]
  /\ log = [e \in {"A"} |-> [originated |-> <<>>]]

NextSequence ==
  /\ \/ \E data \in SequencePackets : Receive("A", data)
     \/ \E data \in Messages : Send("A", data)
     \/ \E a \in CloseArgs : Close("A", a[1], a[2])
     \/ ConnectionTimerFires("A")
     \/ \E t \in ws["A"].timers : ClosingTimerFires("A", t)
     \/ \E t \in ws["A"].timers : RetransmissionTimerFires("A", t)
  /\ log' = [log EXCEPT !["A"].originated =
               IF op'.name \in Originating THEN @ \o SequencesIn(Sequenced(sent')) ELSE @]

SpecSequence == InitSequence /\ [][NextSequence]_vars

(***************************************************************************)
(* SpecPayload: the endpoint "A" of Spec, OPEN, on a carrier that brings it *)
(* DATA packets with payloads around the size of the fragment header, each  *)
(* under a sequence of its own, in any order and any number of times: the   *)
(* empty payload, one a byte shorter than the header, one of exactly the    *)
(* header's size as send() emits it for a message of that size, and three   *)
(* that read as fragments of one message: index 0, index 1 with the last    *)
(* bit, and a bare header with index 0 and the last bit.                    *)
(***************************************************************************)
DataPayloads ==
  <<<<>>,
    createTestPayload(FragmentHeaderSize - 1),
    createTestPayload(FragmentHeaderSize),
    <<7, 0, 0, 0, 0, 10>>,
    <<7, 0, 0, 0, 129, 11>>,
    <<7, 0, 0, 0, 128>>>>

PayloadPackets ==
  {createTestPacket(U32LE(i), DATA, DataPayloads[i]) : i \in 1..Len(DataPayloads)}

InitPayload ==
  /\ ws = [e \in {"A"} |-> OpenEndpoint]
  /\ wire = [e \in {"A"} |-> <<>>]
  /\ op = [name |-> "receive", e |-> "A", from |-> CONNECTING,
           arg |-> [data |-> createSynPacket],
           result |-> handleReceivedPacket(Construct.w, createSynPacket).result]
  /\ sent = handleReceivedData(Construct.w, createSynPacket).sent
  /\ events = handleReceivedData(Construct.w, createSynPacket).events
  /\ hist = [e \in {"A"} |-> Observe(NoHistory, events)]
  /\ log = [e \in {"A"} |-> NoLog]

NextPayload ==
  /\ \E data \in PayloadPackets : Receive("A", data)
  /\ UNCHANGED log

SpecPayload == InitPayload /\ [][NextPayload]_vars

(***************************************************************************)
(* SpecUnheeded: the endpoint "A" of Spec, CONNECTING, and a sender whose    *)
(* engine has sent one DATA packet and the two FINs of a close().  The      *)
(* carrier brings "A" the sender's SYN and those three packets in any order *)
(* and any number of times (a retransmission is the same buffer again), and *)
(* brings every ACK "A" hands to it back to the sender's engine at once.    *)
(* "A" may close, and its connection and closing timers may expire.  A test *)
(* keeps the sender's engine and the buffers that arrived at "A" for the    *)
(* first time as DATA while not OPEN or as FIN while CONNECTING.            *)
(***************************************************************************)
\* the sender after send() of a message of one packet and close()
SenderSends ==
  CHOOSE eff \in {Then(one, close(one.w, Undefined, Undefined)) :
                    one \in {send(OpenEndpoint, createTestPayload(FragmentHeaderSize - 1)).eff}} :
    TRUE

SenderPackets == {createSynPacket} \cup {SenderSends.sent[i] : i \in 1..Len(SenderSends.sent)}

\* the sender's engine after the ACKs among the buffers have reached it
RECURSIVE AckedBy(_, _)
AckedBy(w, buffers) ==
  IF buffers = <<>> THEN w
  ELSE IF FlagsOf(Head(buffers)) = ACK
  THEN AckedBy(handleReceivedPacket(w, Head(buffers)).eff.w, Tail(buffers))
  ELSE AckedBy(w, Tail(buffers))

\* the result of handleReceivedPacket is that of a packet which an endpoint in the
\* state takes for new and does not act on
Unheeded(r, state) ==
  IF r.null THEN FALSE
  ELSE /\ ~r.isDuplicate
       /\ ~HasFlag(r.flags, SYN)
       /\ \/ HasFlag(r.flags, FIN) /\ state = CONNECTING
          \/ ~HasFlag(r.flags, FIN) /\ HasFlag(r.flags, DATA) /\ state # OPEN

\* the test's record after the operation o handed the buffers to the carrier
Unheeding(l, o, buffers) ==
  [sender |-> AckedBy(l.sender, buffers),
   unheeded |-> IF o.name = "receive" /\ Unheeded(o.result, o.from)
                THEN l.unheeded \cup {o.arg.data}
                ELSE l.unheeded]

InitUnheeded ==
  /\ ws = [e \in {"A"} |-> Construct.w]
  /\ wire = [e \in {"A"} |-> <<>>]
  /\ op = [name |-> "constructor", e |-> "A", from |-> CONNECTING,
           arg |-> [config |-> "config"], result |-> NoResult]
  /\ sent = Construct.sent
  /\ events = Construct.events
  /\ hist = [e \in {"A"} |-> NoHistory]
  /\ log = [e \in {"A"} |-> [sender |-> SenderSends.w, unheeded |-> {}]]

NextUnheeded ==
  /\ \/ \E data \in SenderPackets : Receive("A", data)
     \/ Close("A", Undefined, Undefined)
     \/ ConnectionTimerFires("A")
     \/ \E t \in ws["A"].timers : ClosingTimerFires("A", t)
  /\ log' = [e \in {"A"} |-> Unheeding(log[e], op', sent')]

SpecUnheeded == InitUnheeded /\ [][NextUnheeded]_vars

(***************************************************************************)
(* SpecOneCloses: the pair of SpecPair when "A" may call close() at any     *)
(* time and "B" never does.  The carrier delivers in order and loses        *)
(* nothing; retransmission timers may expire, the closing timer of "A"      *)
(* does, and no connection timer expires on an endpoint that is still       *)
(* CONNECTING: the SYNs in flight arrive first.                             *)
(***************************************************************************)
NextOneCloses ==
  /\ \/ \E e \in Endpoints : Deliver(e)
     \/ \E a \in CloseArgs : Close("A", a[1], a[2])
     \/ ws["A"].state # CONNECTING /\ ConnectionTimerFires("A")
     \/ \E t \in ws["A"].timers : ClosingTimerFires("A", t)
     \/ \E e \in Endpoints : \E t \in ws[e].timers : RetransmissionTimerFires(e, t)
  /\ UNCHANGED log

SpecOneCloses ==
  /\ InitPair
  /\ [][NextOneCloses]_vars
  /\ WF_vars(Deliver("A") /\ UNCHANGED log)
  /\ WF_vars(Deliver("B") /\ UNCHANGED log)
  /\ WF_vars(ws["A"].state # CONNECTING /\ ConnectionTimerFires("A") /\ UNCHANGED log)
  /\ WF_vars((\E t \in ws["A"].timers : ClosingTimerFires("A", t)) /\ UNCHANGED log)

(***************************************************************************)
(* SpecSyn: the pair of SpecHandshake when either endpoint may call close() *)
(* and the connection and closing timers may expire.  The carrier delivers  *)
(* what is in flight.  A test counts the SYN packets each endpoint has      *)
(* handed to the carrier, the one of its constructor included.              *)
(***************************************************************************)
\* how many of the buffers are SYN packets
Syns(buffers) == Cardinality({i \in 1..Len(buffers) : FlagsOf(buffers[i]) = SYN})

InitSyn ==
  /\ ws = [e \in Endpoints |-> Construct.w]
  /\ wire \in {[e \in Endpoints |-> Construct.sent],
               [e \in Endpoints |-> IF e = "A" THEN Construct.sent ELSE <<>>]}
  /\ op = [name |-> "constructor", e |-> "B", from |-> CONNECTING,
           arg |-> [config |-> "config"], result |-> NoResult]
  /\ sent = Construct.sent
  /\ events = Construct.events
  /\ hist = [e \in Endpoints |-> NoHistory]
  /\ log = [e \in Endpoints |-> [syns |-> Syns(Construct.sent)]]

NextSyn ==
  /\ \/ \E e \in Endpoints : Deliver(e)
     \/ \E e \in Endpoints : Close(e, Undefined, Undefined)
     \/ \E e \in Endpoints : ConnectionTimerFires(e)
     \/ \E e \in Endpoints : \E t \in ws[e].timers : ClosingTimerFires(e, t)
  /\ log' = [log EXCEPT ![op'.e].syns = @ + Syns(sent')]

SpecSyn ==
  /\ InitSyn
  /\ [][NextSyn]_vars
  /\ WF_vars(Deliver("A") /\ log' = [log EXCEPT ![op'.e].syns = @ + Syns(sent')])
  /\ WF_vars(Deliver("B") /\ log' = [log EXCEPT ![op'.e].syns = @ + Syns(sent')])

(***************************************************************************)
(* SpecAck: the pair of SpecPair when "A" sends a message of one packet and *)
(* "B" calls close(), each once both are OPEN.  The carrier delivers in     *)
(* order and loses nothing; the retransmission timers and the closing timer *)
(* of "B" may expire.                                                      *)
(***************************************************************************)
NextAck ==
  /\ \/ \E e \in Endpoints : Deliver(e)
     \/ BothOpen /\ Send("A", createTestPayload(FragmentHeaderSize - 1))
     \/ BothOpen /\ Close("B", Undefined, Undefined)
     \/ \E t \in ws["B"].timers : ClosingTimerFires("B", t)
     \/ \E e \in Endpoints : \E t \in ws[e].timers : RetransmissionTimerFires(e, t)
  /\ UNCHANGED log

SpecAck ==
  /\ InitPair
  /\ [][NextAck]_vars
  /\ WF_vars(Deliver("A") /\ UNCHANGED log)
  /\ WF_vars(Deliver("B") /\ UNCHANGED log)

(***************************************************************************)
(* Properties.                                                             *)
(***************************************************************************)
\* the endpoint that ran the last operation
Actor == ws[op.e]

\* how many of the buffers carry the flag
CountFlag(buffers, flag) ==
  Cardinality({i \in 1..Len(buffers) : HasFlag(decodePacket(buffers[i]).flags, flag)})

\* the last operation was a receive of a decodable packet that is no ACK
ReceivedPacket == op.name = "receive" /\ ~op.result.null

ReceivedFlag(flag) == ReceivedPacket /\ HasFlag(op.result.flags, flag)

\* C4: right after construction the endpoint is CONNECTING, the first buffer handed
\* to the carrier is a SYN with sequence 0 and no payload, the connection timer is
\* pending, and the engine has consumed no sequence number
C4_AfterConstruction ==
  op.name = "constructor" =>
    /\ Actor.state = CONNECTING
    /\ Len(sent) >= 1
    /\ ~decodePacket(sent[1]).null
    /\ decodePacket(sent[1]).flags = SYN
    /\ decodePacket(sent[1]).sequence = U32LE(0)
    /\ decodePacket(sent[1]).payload = <<>>
    /\ Actor.connectionTimer
    /\ ConnectionTimeout \in Actor.timers
    /\ Actor.nextSequence = U32LE(1)
    /\ Actor.unacknowledgedPackets = EmptyMap

C4_Witness ==
  op.name = "constructor" /\ sent # <<>> /\ ConnectionTimeout \in Actor.timers

\* the last operation was a receive of a decodable non-ACK packet whose sequence was
\* already in the received-sequence window
ReceivedDuplicate == ReceivedPacket /\ op.result.isDuplicate

\* C2: every receive of a decodable non-ACK packet hands exactly one ACK to the
\* carrier, first, carrying the packet's sequence; when the sequence was already in
\* the window the ACK is all that happens: nothing is dispatched (no event, no SYN
\* reply, no state change), so of k deliveries at most the first is dispatched
C2_DuplicateAckedNotDispatched ==
  [][(op'.name = "receive" /\ ~op'.result.null) =>
       /\ sent' # <<>>
       /\ sent'[1] = createAckPacket(op'.result.sequence)
       /\ CountFlag(sent', ACK) = 1
       /\ op'.result.isDuplicate = (op'.result.sequence \in ws[op'.e].receivedSequences)
       /\ op'.result.isDuplicate =>
            /\ ws' = ws
            /\ events' = <<>>
            /\ hist' = hist
            /\ Len(sent') = 1]_vars

\* a DATA packet delivered once as a message has been received a second time
C2_Witness ==
  /\ ReceivedDuplicate
  /\ HasFlag(op.result.flags, DATA)
  /\ op.from = OPEN
  /\ Len(hist[op.e].messages) = 1
  /\ hist[op.e].messages[1] = op.result.payload

\* C3 (as stated): a SYN received in CONNECTING opens the connection
C3_AnySynOpens ==
  (ReceivedFlag(SYN) /\ op.from = CONNECTING) =>
    /\ Actor.state = OPEN
    /\ CountFlag(sent, SYN) = 1
    /\ events = <<OpenEvent>>

\* C3: a SYN whose sequence is not in the received-sequence window, received in
\* CONNECTING, moves the endpoint to OPEN, is answered by exactly one SYN, fires
\* onopen once and cancels the connection timer, and an OPEN endpoint never has a
\* pending connection timer; a SYN received in another state, or one whose sequence
\* is already in the window, changes neither the state nor fires onopen nor is
\* answered by a SYN
C3_SynOpens ==
  /\ (ReceivedFlag(SYN) /\ op.from = CONNECTING /\ ~op.result.isDuplicate) =>
       /\ Actor.state = OPEN
       /\ CountFlag(sent, SYN) = 1
       /\ events = <<OpenEvent>>
       /\ ~Actor.connectionTimer
  /\ (ReceivedFlag(SYN) /\ (op.from # CONNECTING \/ op.result.isDuplicate)) =>
       /\ Actor.state = op.from
       /\ CountFlag(sent, SYN) = 0
       /\ events = <<>>
  /\ Actor.state = OPEN => ConnectionTimeout \notin Actor.timers
  /\ hist[op.e].opens <= 1

C3_Witness ==
  /\ ReceivedFlag(SYN)
  /\ op.from = CONNECTING
  /\ ~op.result.isDuplicate
  /\ Actor.state = OPEN
  /\ events = <<OpenEvent>>

\* the closure close(1006, "Connection timeout") arms
TimeoutClosing == ClosingTimeout(Some(1006), Some("Connection timeout"))

\* the last operation was the connection timer firing on a CONNECTING endpoint
TimedOut == op.name = "connectionTimer" /\ op.from = CONNECTING

\* C5 (as stated): the connection timer firing in CONNECTING leaves the endpoint
\* CLOSED and emits close{1006, wasClean false}
C5_TimerClosesAtOnce ==
  TimedOut =>
    /\ Actor.state = CLOSED
    /\ \E i \in 1..Len(events) :
         events[i].type = "close" /\ events[i].code = 1006 /\ ~events[i].wasClean

\* C5: the connection timer firing in CONNECTING runs close(1006, "Connection
\* timeout"): the endpoint is CLOSING, two FINs were handed to the carrier, the
\* closing timer is armed with that code and reason and no event fired; when that
\* closing timer fires the endpoint is CLOSED and the one event of that step is
\* close{1006, "Connection timeout", wasClean false}
C5_TimeoutClosesInTwoSteps ==
  /\ TimedOut =>
       /\ Actor.state = CLOSING
       /\ events = <<>>
       /\ Len(sent) = 2
       /\ CountFlag(sent, FIN) = 2
       /\ Actor.closingTimer
       /\ TimeoutClosing \in Actor.timers
  /\ (op.name = "closingTimer" /\ op.arg.timer = TimeoutClosing) =>
       /\ Actor.state = CLOSED
       /\ events = <<CloseEvent(1006, "Connection timeout", FALSE)>>

C5_Witness ==
  /\ op.name = "closingTimer"
  /\ op.arg.timer = TimeoutClosing
  /\ Actor.state = CLOSED
  /\ hist[op.e].closes = <<CloseEvent(1006, "Connection timeout", FALSE)>>

\* C7: send() on an endpoint that is not OPEN throws "WebSocket is not open" and
\* changes nothing: the endpoint (state, next sequence, next message id, outstanding
\* packets, timers) is as before and nothing is handed to the carrier
C7_SendNotOpen ==
  [][(op'.name = "send" /\ ws[op'.e].state # OPEN) =>
       /\ op'.result.error = "WebSocket is not open"
       /\ ws' = ws
       /\ hist' = hist
       /\ wire' = wire
       /\ sent' = <<>>
       /\ events' = <<>>]_vars

C7_Witness ==
  /\ op.name = "send"
  /\ op.from = CLOSING
  /\ op.arg.data \in Messages
  /\ op.result.error = "WebSocket is not open"
  /\ Actor.unacknowledgedPackets # EmptyMap

\* C8: close() in CLOSING or CLOSED changes nothing (state, sequence counter,
\* timers and with them the pending code and reason) and hands nothing to the
\* carrier and fires no event; close() in CONNECTING or OPEN leaves the endpoint
\* CLOSING
C8_CloseIdempotent ==
  [][op'.name = "close" =>
       /\ ws[op'.e].state \in {CLOSING, CLOSED} =>
            /\ ws' = ws
            /\ hist' = hist
            /\ sent' = <<>>
            /\ events' = <<>>
       /\ ws[op'.e].state \in {CONNECTING, OPEN} => ws'[op'.e].state = CLOSING]_vars

\* close(4000, "bye") was called while a close() without arguments was pending
C8_Witness ==
  /\ op.name = "close"
  /\ op.from = CLOSING
  /\ op.arg.code = Some(4000)
  /\ op.arg.reason = Some("bye")
  /\ ClosingTimeout(Undefined, Undefined) \in Actor.timers
  /\ Cardinality({t \in Actor.timers : t.kind = "closing"}) = 1

\* the outstanding entry sendPacket records for packet under sequence
Outstanding(w, sequence, packet) ==
  /\ MapHas(w.unacknowledgedPackets, sequence)
  /\ w.unacknowledgedPackets[sequence] =
       [sequence |-> sequence, packet |-> packet, attempts |-> 0,
        timerId |-> RetransmitTimeout(sequence, packet)]
  /\ RetransmitTimeout(sequence, packet) \in w.timers

\* what close(code, reason) leaves when called on the OPEN endpoint w: w1 after it,
\* out the buffers handed to the carrier
ClosedFromOpen(w, w1, out, code, reason) ==
  /\ w1.state = CLOSING
  /\ out = <<createFinPacket(w.nextSequence),
             encodePacket(Inc32(w.nextSequence), FIN, <<>>)>>
  /\ w1.nextSequence = Inc32(Inc32(w.nextSequence))
  /\ Outstanding(w1, Inc32(w.nextSequence), out[2])
  /\ ~MapHas(w1.unacknowledgedPackets, w.nextSequence)
  /\ w1.closingTimer
  /\ ClosingTimeout(code, reason) \in w1.timers

\* C9: close() on an OPEN endpoint whose next sequence is n leaves it CLOSING, hands
\* the carrier first FIN(n) and then FIN(n+1), both with empty payload, records only
\* the second as outstanding with its retransmission timer pending, arms the closing
\* timer and fires no event; when that retransmission timer fires before the budget
\* is used up the same FIN(n+1) buffer is handed to the carrier again
C9_CloseSendsTwoFins ==
  [][/\ (op'.name = "close" /\ ws[op'.e].state = OPEN) =>
          /\ ClosedFromOpen(ws[op'.e], ws'[op'.e], sent', op'.arg.code, op'.arg.reason)
          /\ events' = <<>>
          /\ hist' = hist
     /\ (/\ op'.name = "retransmissionTimer"
         /\ MapHas(ws[op'.e].unacknowledgedPackets, op'.arg.timer.sequence)
         /\ ws[op'.e].unacknowledgedPackets[op'.arg.timer.sequence].attempts
              < maxRetransmissionAttempts) =>
          sent' = <<op'.arg.timer.packet>>]_vars

\* the reliable FIN of a close() made in OPEN has been retransmitted
C9_Witness ==
  /\ op.name = "retransmissionTimer"
  /\ Actor.state = CLOSING
  /\ hist[op.e].opens = 1
  /\ sent = <<op.arg.timer.packet>>
  /\ HasFlag(op.arg.timer.packet[SEQUENCE_SIZE + CHECKSUM_SIZE + 1], FIN)

\* the last operation was the receive of a FIN, not a duplicate, in OPEN or CLOSING
ReceivedFin ==
  /\ ReceivedFlag(FIN)
  /\ ~HasFlag(op.result.flags, SYN)
  /\ ~op.result.isDuplicate
  /\ op.from \in {OPEN, CLOSING}

\* C10: a FIN that is no duplicate, received in OPEN or CLOSING, leaves the endpoint
\* CLOSED with no closing timer pending and fires exactly close{1000, "", wasClean
\* true}; and an endpoint never fires more than one close event
C10_FinCloses ==
  /\ ReceivedFin =>
       /\ Actor.state = CLOSED
       /\ ~Actor.closingTimer
       /\ \A t \in Actor.timers : t.kind # "closing"
       /\ events = <<CloseEvent(1000, "", TRUE)>>
  /\ Len(hist[op.e].closes) <= 1

\* the FIN arrived while a local close() was pending, its reliable FIN still outstanding
C10_Witness ==
  /\ ReceivedFin
  /\ op.from = CLOSING
  /\ Actor.state = CLOSED
  /\ hist[op.e].closes = <<CloseEvent(1000, "", TRUE)>>
  /\ \E q \in DOMAIN Actor.unacknowledgedPackets :
       HasFlag(Actor.unacknowledgedPackets[q].packet[SEQUENCE_SIZE + CHECKSUM_SIZE + 1], FIN)

TimeoutClose == CloseEvent(1006, "Connection timeout", FALSE)

Quiescent == \A e \in Endpoints : wire[e] = <<>>

\* C1 (as stated): on a carrier that loses, corrupts, duplicates and reorders
\* nothing, what an endpoint has been given to send is what its peer's onmessage has
\* delivered, each message once and byte for byte, as soon as nothing is in flight
C1_EverySendDelivered ==
  (BothOpen /\ Quiescent) =>
    \A e \in Endpoints : hist[Peer(e)].messages = hist[e].accepted

\* "A" sent a message of FragmentHeaderSize or more bytes that fits in one packet;
\* it was carried to "B" and acknowledged, nothing is in flight or outstanding, and
\* "B" has delivered nothing: it holds the message as a fragment of a message that
\* never completes
C1_Witness ==
  /\ BothOpen
  /\ Quiescent
  /\ hist["A"].accepted = <<createTestPayload(maxPacketPayloadSize)>>
  /\ hist["B"].messages = <<>>
  /\ ws["A"].unacknowledgedPackets = EmptyMap
  /\ ws["B"].fragmentedMessages # EmptyMap

\* the closing timers pending on the endpoint
ClosingTimers(w) == {t \in w.timers : t.kind = "closing"}

\* C11 (as stated): the close event of the closing timer carries the code passed to
\* close(), 1000 when none was passed, and the reason passed, "" when none was
C11_CodeAsPassed ==
  op.name = "closingTimer" =>
    events = <<CloseEvent(IF op.arg.timer.code = Undefined THEN 1000
                          ELSE op.arg.timer.code[1],
                          IF op.arg.timer.reason = Undefined THEN ""
                          ELSE op.arg.timer.reason[1],
                          FALSE)>>

\* C11: close(code, reason) on a CONNECTING or OPEN endpoint arms the closing timer
\* with that code and reason; a closing timer is pending only while the endpoint is
\* CLOSING, and at most one is; when it fires the endpoint was CLOSING, is CLOSED,
\* and the one event fired, the only close event the endpoint ever fires, has
\* wasClean false, the reason passed or "" when none was, and the code passed, or
\* 1000 when none or 0 was passed
C11_ClosingTimerCloses ==
  /\ (op.name = "close" /\ op.from \in {CONNECTING, OPEN}) =>
       ClosingTimeout(op.arg.code, op.arg.reason) \in Actor.timers
  /\ \A e \in DOMAIN ws :
       /\ Cardinality(ClosingTimers(ws[e])) <= 1
       /\ ClosingTimers(ws[e]) # {} => (ws[e].state = CLOSING /\ ws[e].closingTimer)
  /\ op.name = "closingTimer" =>
       /\ op.from = CLOSING
       /\ Actor.state = CLOSED
       /\ ~Actor.closingTimer
       /\ events =
            <<CloseEvent(IF op.arg.timer.code \in {Undefined, Some(0)} THEN 1000
                         ELSE op.arg.timer.code[1],
                         IF op.arg.timer.reason = Undefined THEN ""
                         ELSE op.arg.timer.reason[1],
                         FALSE)>>
       /\ hist[op.e].closes = events

\* the closing timer of close(4000, "bye") has fired
C11_Witness ==
  /\ op.name = "closingTimer"
  /\ op.arg.timer = ClosingTimeout(Some(4000), Some("bye"))
  /\ Actor.state = CLOSED
  /\ hist[op.e].closes = <<CloseEvent(4000, "bye", FALSE)>>

\* C12 (as stated): the closing timer of a close() without a code fires a close
\* event with code 1006
C12_NoCodeGives1006 ==
  (op.name = "closingTimer" /\ op.arg.timer.code = Undefined) =>
    (events # <<>> /\ events[1].type = "close" /\ events[1].code = 1006)

\* C12: the closing timer of a close() without a code fires a close event with code
\* 1000; a closing timer fires a close event with code 1006 only when close() was
\* given the code 1006, as the connection timer does
C12_NoCodeGives1000 ==
  /\ (op.name = "closingTimer" /\ op.arg.timer.code = Undefined) =>
       (Len(events) = 1 /\ events[1].type = "close" /\ events[1].code = 1000)
  /\ (op.name = "closingTimer" /\ events # <<>> /\ events[1].code = 1006) =>
       op.arg.timer.code = Some(1006)
  /\ TimedOut => ClosingTimers(Actor) = {TimeoutClosing}

\* the closing timer of a close() without arguments has fired
C12_Witness ==
  /\ op.name = "closingTimer"
  /\ op.arg.timer = ClosingTimeout(Undefined, Undefined)
  /\ hist[op.e].closes = <<CloseEvent(1000, "", FALSE)>>

\* the buffers on the endpoint's record that carry the sequence
CarriedWith(l, sequence) == {b \in DOMAIN l.carried : SequenceOf(b) = sequence}

\* the retransmission timers pending on the endpoint
RetransmitTimers(w) == {t \in w.timers : t.kind = "retransmit"}

\* C13: of every sequence the engine has sent, one buffer was handed to the carrier,
\* at most maxRetransmissionAttempts + 1 times; while its entry is outstanding that
\* buffer is the entry's packet and was handed over attempts + 1 times, and its timer
\* is pending; once the entry is gone no timer is left that could send it again; a
\* packet dropped without an ACK was handed over exactly maxRetransmissionAttempts + 1
\* times
C13_BoundedRetransmission ==
  \A e \in DOMAIN ws :
    /\ \A s \in log[e].engine :
         /\ Cardinality(CarriedWith(log[e], s)) = 1
         /\ \A b \in CarriedWith(log[e], s) :
              /\ FlagsOf(b) # ACK
              /\ log[e].carried[b] <= maxRetransmissionAttempts + 1
              /\ MapHas(ws[e].unacknowledgedPackets, s) =>
                   /\ ws[e].unacknowledgedPackets[s].packet = b
                   /\ log[e].carried[b] = ws[e].unacknowledgedPackets[s].attempts + 1
                   /\ RetransmitTimeout(s, b) \in ws[e].timers
              /\ (s \in log[e].exhausted /\ s \notin log[e].acked) =>
                   log[e].carried[b] = maxRetransmissionAttempts + 1
    /\ \A t \in RetransmitTimers(ws[e]) :
         /\ MapHas(ws[e].unacknowledgedPackets, t.sequence)
         /\ t.sequence \in log[e].engine
         /\ t.packet = ws[e].unacknowledgedPackets[t.sequence].packet

\* a DATA packet was sent, retransmitted until the budget was used up and dropped,
\* never acknowledged
C13_Witness ==
  \E s \in log["A"].engine :
    /\ s \in log["A"].exhausted
    /\ s \notin log["A"].acked
    /\ ~MapHas(ws["A"].unacknowledgedPackets, s)
    /\ \E b \in CarriedWith(log["A"], s) :
         /\ FlagsOf(b) = DATA
         /\ log["A"].carried[b] = maxRetransmissionAttempts + 1
    /\ \A t \in RetransmitTimers(ws["A"]) : t.sequence # s

\* C14: every outstanding entry has attempts <= maxRetransmissionAttempts; a
\* retransmission timer that finds its entry with attempts at the limit removes the
\* entry and does nothing else: nothing is handed to the carrier, no event fires,
\* the user's history and every other field of the endpoint (the state among them)
\* are as before, but for the timer that fired
C14_SilentDrop ==
  [][/\ \A e \in DOMAIN ws : \A s \in DOMAIN ws'[e].unacknowledgedPackets :
          ws'[e].unacknowledgedPackets[s].attempts <= maxRetransmissionAttempts
     /\ (/\ op'.name = "retransmissionTimer"
         /\ MapHas(ws[op'.e].unacknowledgedPackets, op'.arg.timer.sequence)
         /\ ws[op'.e].unacknowledgedPackets[op'.arg.timer.sequence].attempts
              = maxRetransmissionAttempts) =>
          /\ ws'[op'.e] =
               [ws[op'.e] EXCEPT
                  !.unacknowledgedPackets = MapDelete(@, op'.arg.timer.sequence),
                  !.timers = @ \ {op'.arg.timer}]
          /\ sent' = <<>>
          /\ events' = <<>>
          /\ hist' = hist]_vars

\* the entry of a DATA packet was dropped while the endpoint was OPEN
C14_Witness ==
  /\ op.name = "retransmissionTimer"
  /\ op.from = OPEN
  /\ Actor.state = OPEN
  /\ op.arg.timer.sequence \in log[op.e].exhausted
  /\ FlagsOf(op.arg.timer.packet) = DATA
  /\ ~MapHas(Actor.unacknowledgedPackets, op.arg.timer.sequence)
  /\ sent = <<>>
  /\ events = <<>>

\* the encoded size of a packet: the header and as many bytes as its length field says
EncodedSize(packet) == PACKET_HEADER_SIZE + GetU16LE(SubSeq(packet, 10, 11))

RECURSIVE SumEncodedSizes(_, _)
SumEncodedSizes(m, keys) ==
  IF keys = {} THEN 0
  ELSE LET k == CHOOSE x \in keys : TRUE
       IN  EncodedSize(m[k].packet) + SumEncodedSizes(m, keys \ {k})

\* what the receive of an ACK for the sequence does to the endpoint w, giving w1
AckRemoves(w, w1, sequence) ==
  IF MapHas(w.unacknowledgedPackets, sequence)
  THEN /\ w1 = [w EXCEPT
                  !.unacknowledgedPackets = MapDelete(@, sequence),
                  !.timers = @ \ {RetransmitTimeout(sequence,
                                     w.unacknowledgedPackets[sequence].packet)}]
       /\ RetransmitTimers(w1) = {t \in RetransmitTimers(w) : t.sequence # sequence}
       /\ getBufferedAmount(w1) =
            getBufferedAmount(w) - EncodedSize(w.unacknowledgedPackets[sequence].packet)
  ELSE w1 = w

\* the receive step of a decoded ACK
AckStep(decoded, w, w1) ==
  (~decoded.null /\ decoded.flags = ACK) => AckRemoves(w, w1, decoded.sequence)

\* C15: the receive of an ACK for sequence s removes the outstanding entry for s and
\* its retransmission timer, which lowers bufferedAmount by the packet's encoded size,
\* and changes nothing when there is no entry for s; it returns null to the facade:
\* nothing is dispatched, no event fires and nothing is handed to the carrier; a
\* buffer whose sequence has been acknowledged is never handed to the carrier again;
\* and bufferedAmount is the sum of the encoded sizes of the outstanding entries
C15_AckRemovesEntry ==
  [][/\ op'.name = "receive" =>
          AckStep(decodePacket(op'.arg.data), ws[op'.e], ws'[op'.e])
     /\ (op'.name = "receive" /\ FlagsOf(op'.arg.data) = ACK) =>
          /\ op'.result.null
          /\ sent' = <<>>
          /\ events' = <<>>
          /\ hist' = hist
     /\ \A e \in DOMAIN ws :
          /\ getBufferedAmount(ws'[e]) =
               SumEncodedSizes(ws'[e].unacknowledgedPackets,
                               DOMAIN ws'[e].unacknowledgedPackets)
          /\ \A s \in log[e].acked :
               /\ ~MapHas(ws'[e].unacknowledgedPackets, s)
               /\ \A b \in CarriedWith(log[e], s) : log'[e].carried[b] = log[e].carried[b]]_vars

\* the ACK for the first of two outstanding fragments has arrived: the second is
\* still buffered
C15_Witness ==
  /\ op.name = "receive"
  /\ op.result.null
  /\ FlagsOf(op.arg.data) = ACK
  /\ SequenceOf(op.arg.data) \in log[op.e].acked
  /\ ~MapHas(Actor.unacknowledgedPackets, SequenceOf(op.arg.data))
  /\ getUnacknowledgedCount(Actor) = 1
  /\ getBufferedAmount(Actor) > PACKET_HEADER_SIZE

\* C16: between two endpoints on a carrier that delivers, in order and unchanged,
\* all that is handed to it, whenever the sender has bytes buffered it eventually has
\* none: every outstanding entry is removed, by the peer's ACK unless its budget ran
\* out first, whether the retransmission timers fire or not
C16_BufferDrains ==
  /\ (getBufferedAmount(ws["A"]) > 0) ~> (getBufferedAmount(ws["A"]) = 0)
  /\ <>[](getBufferedAmount(ws["A"]) = 0 /\ ws["A"].unacknowledgedPackets = EmptyMap)

\* the ACK of the last outstanding packet of a message "A" sent has reached "A"
C16_Witness ==
  /\ BothOpen
  /\ hist["A"].accepted # <<>>
  /\ op.name = "receive"
  /\ op.e = "A"
  /\ FlagsOf(op.arg.data) = ACK
  /\ ws["A"].nextSequence # U32LE(1)
  /\ getBufferedAmount(ws["A"]) = 0
  /\ RetransmitTimers(ws["A"]) = {}

\* the sequences whose non-ACK packet the engine has sent, for which no ACK has
\* arrived since, and whose budget is not used up
Unsettled(l) == (l.engine \ l.acked) \ l.exhausted

\* C17 (as stated): an outstanding entry for a sequence exists exactly when the
\* engine has sent a non-ACK packet with it, no ACK for it has arrived and its
\* budget is not used up
C17_EntryIffUnsettled ==
  \A e \in DOMAIN ws : DOMAIN ws[e].unacknowledgedPackets = Unsettled(log[e])

\* send() has returned on a carrier that brought the ACK of the DATA packet back
\* inside the call: the ACK for the sequence has arrived, its budget is unused, and
\* the entry is outstanding, its retransmission timer pending
C17_Witness ==
  /\ op.name = "send"
  /\ op.result.error = ""
  /\ \E s \in log["A"].acked :
       /\ s \notin log["A"].exhausted
       /\ MapHas(ws["A"].unacknowledgedPackets, s)
       /\ ws["A"].unacknowledgedPackets[s].attempts = 0
       /\ ws["A"].unacknowledgedPackets[s].timerId \in ws["A"].timers
       /\ FlagsOf(ws["A"].unacknowledgedPackets[s].packet) = DATA
  /\ getBufferedAmount(ws["A"]) > 0

\* what makes decodePacket return null
TooShortForHeader(data) == Len(data) < PACKET_HEADER_SIZE

TooShortForPayload(data) ==
  /\ ~TooShortForHeader(data)
  /\ Len(data) < PACKET_HEADER_SIZE + GetU16LE(SubSeq(data, 10, 11))

ChecksumMismatch(data) ==
  /\ ~TooShortForHeader(data)
  /\ ~TooShortForPayload(data)
  /\ SubSeq(data, SEQUENCE_SIZE + 1, SEQUENCE_SIZE + CHECKSUM_SIZE) #
       calculateChecksum(SubSeq(data, 1, SEQUENCE_SIZE)
                           \o SubSeq(data, SEQUENCE_SIZE + CHECKSUM_SIZE + 1, Len(data)))

Undecodable(data) ==
  TooShortForHeader(data) \/ TooShortForPayload(data) \/ ChecksumMismatch(data)

\* C18: the receive of a buffer that is shorter than the header, shorter than the
\* header and the payload length it announces, or whose checksum does not match,
\* returns null and changes nothing: the endpoint (state, received-sequence window,
\* outstanding entries, timers, fragment buffers) and the user's history are as
\* before, nothing is handed to the carrier (no ACK) and no event fires; and every
\* buffer made by changing one byte of a packet or by cutting it is such a buffer
C18_UndecodableIgnored ==
  [][/\ (op'.name = "receive" /\ Undecodable(op'.arg.data)) =>
          /\ op'.result.null
          /\ ws' = ws
          /\ hist' = hist
          /\ wire' = wire
          /\ sent' = <<>>
          /\ events' = <<>>
          /\ op'.arg.data \in CorruptPackets
     /\ (op'.name = "receive" /\ op'.arg.data \in CorruptPackets) =>
          Undecodable(op'.arg.data)]_vars

\* an ACK whose checksum does not match was received while the packet it names was
\* outstanding and a fragment was buffered: the entry is still there
C18_Witness ==
  /\ op.name = "receive"
  /\ op.arg.data = corruptPacket(createTestPacket(U32LE(1), ACK, <<>>), SEQUENCE_SIZE)
  /\ ChecksumMismatch(op.arg.data)
  /\ op.from = OPEN
  /\ Actor.state = OPEN
  /\ MapHas(Actor.unacknowledgedPackets, U32LE(1))
  /\ Actor.fragmentedMessages # EmptyMap
  /\ Actor.receivedSequences # {}
  /\ sent = <<>>
  /\ events = <<>>

\* C19: what encodePacket returns for a sequence, flags in 0..255 and a payload of
\* up to 65535 bytes has the size of the header and the payload, and decodePacket
\* returns for it a packet, not null, with that sequence, those flags, that payload
\* and the payload's length
C19_RoundTrip ==
  /\ op.name = "encodePacket" =>
       Len(sent[1]) = PACKET_HEADER_SIZE + Len(op.arg.payload)
  /\ op.name = "decodePacket" =>
       /\ ~op.result.null
       /\ op.result.sequence = op.arg.sequence
       /\ op.result.flags = op.arg.flags
       /\ op.result.payload = op.arg.payload
       /\ op.result.payloadLength = Len(op.arg.payload)

\* a payload whose length needs the high byte of the length field has made the
\* round trip under the largest sequence
C19_Witness ==
  /\ op.name = "decodePacket"
  /\ op.arg.sequence = <<255, 255, 255, 255>>
  /\ op.arg.flags = FIN
  /\ Len(op.arg.payload) = 256
  /\ ~op.result.null
  /\ op.result.payloadLength = 256
  /\ op.result.payload = createTestPayload(256)

\* the last n elements of the sequence h, and the set of them
LastOf(h, n) == IF Len(h) <= n THEN h ELSE SubSeq(h, Len(h) - n + 1, Len(h))

Elements(h) == {h[i] : i \in 1..Len(h)}

\* C20: the received-sequence window never holds more than windowSize sequences, and
\* holds, oldest first, the last windowSize sequences accepted as new, each once; a
\* received packet that is no ACK is classified as duplicate exactly when its
\* sequence is among them; and a new sequence accepted into a full window evicts
\* the oldest one, which from then on is not a duplicate
C20_WindowEvictsOldest ==
  [][/\ Len(ws'["A"].receivedSequenceWindow) <= windowSize
     /\ ws'["A"].receivedSequenceWindow = LastOf(log'["A"].accepted, windowSize)
     /\ ws'["A"].receivedSequences = Elements(ws'["A"].receivedSequenceWindow)
     /\ Cardinality(ws'["A"].receivedSequences) = Len(ws'["A"].receivedSequenceWindow)
     /\ (op'.name = "receive" /\ ~op'.result.null) =>
          /\ op'.result.isDuplicate =
               (op'.result.sequence \in Elements(LastOf(log["A"].accepted, windowSize)))
          /\ (~op'.result.isDuplicate
                /\ Len(ws["A"].receivedSequenceWindow) = windowSize) =>
               /\ ws'["A"].receivedSequenceWindow =
                    Append(Tail(ws["A"].receivedSequenceWindow), op'.result.sequence)
               /\ ~isDuplicate(ws'["A"], Head(ws["A"].receivedSequenceWindow))]_vars

\* the window was full, the sequence 1 was evicted from it, and a packet with the
\* sequence 1 came again: it was accepted as new, and evicted the then oldest
C20_Witness ==
  /\ op.name = "receive"
  /\ ~op.result.null
  /\ op.result.sequence = U32LE(1)
  /\ ~op.result.isDuplicate
  /\ Len(ws["A"].receivedSequenceWindow) = windowSize
  /\ Len(log["A"].accepted) > windowSize + 1
  /\ ws["A"].receivedSequenceWindow[windowSize] = U32LE(1)
  /\ U32LE(2) \notin ws["A"].receivedSequences

\* C21: a carrier error report, in whatever state the endpoint is, fires onerror
\* exactly once and nothing else: the endpoint (state, timers, outstanding entries,
\* received-sequence window, fragment buffers) is unchanged and nothing is handed to
\* the carrier
C21_ErrorOnlyReported ==
  [][op'.name = "error" =>
       /\ events' = <<ErrorEvent>>
       /\ sent' = <<>>
       /\ ws' = ws
       /\ wire' = wire]_vars

\* the carrier has reported an error to an endpoint that is CLOSING with its two
\* FINs outstanding and its closing timer pending
C21_Witness ==
  /\ op.name = "error"
  /\ op.from = CLOSING
  /\ Actor.state = CLOSING
  /\ events = <<ErrorEvent>>
  /\ ClosingTimers(Actor) # {}
  /\ getUnacknowledgedCount(Actor) = 2

\* the sequences of the packets the record l holds for the peer's k-th send()
SequencesOf(l, k) ==
  {SequenceOf(l.sends[k].packets[i]) : i \in 1..Len(l.sends[k].packets)}

\* the peer's send() calls that needed two or more fragments
Fragmented(l) == {k \in DOMAIN l.sends : Len(l.sends[k].packets) >= 2}

\* every packet of the peer's k-th send() has been received
Gathered(w, l, k) == SequencesOf(l, k) \subseteq w.receivedSequences

\* the packets of the peer's k-th send() that have been received
Arrived(w, l, k) == SequencesOf(l, k) \cap w.receivedSequences

\* how often onmessage has fired with data m
Deliveries(h, m) == Cardinality({i \in 1..Len(h.messages) : h.messages[i] = m})

\* C22: for a message the peer split into two or more fragments, onmessage has fired
\* with the whole message exactly once when all its fragments have been received and
\* not at all before, whatever the order of arrival, however often a fragment
\* arrives and whatever arrives in between; the message's buffer is gone once it is
\* delivered; and nothing but whole messages is ever delivered
C22_ReassembledOnce ==
  /\ \A k \in Fragmented(log["A"]) :
       /\ Deliveries(hist["A"], log["A"].sends[k].message)
            = IF Gathered(ws["A"], log["A"], k) THEN 1 ELSE 0
       /\ Gathered(ws["A"], log["A"], k) => ~MapHas(ws["A"].fragmentedMessages, U32LE(k))
       /\ (~Gathered(ws["A"], log["A"], k) /\ Arrived(ws["A"], log["A"], k) # {})
            => /\ MapHas(ws["A"].fragmentedMessages, U32LE(k))
               /\ Cardinality(DOMAIN ws["A"].fragmentedMessages[U32LE(k)].receivedFragments)
                    = Cardinality(Arrived(ws["A"], log["A"], k))
  /\ \A i \in 1..Len(hist["A"].messages) :
       \E k \in DOMAIN log["A"].sends : hist["A"].messages[i] = log["A"].sends[k].message

\* the first fragment of the three-fragment message has arrived after the other two
\* and completed it, while of the two-fragment message only the last fragment is in
C22_Witness ==
  /\ op.name = "receive"
  /\ op.arg.data = log["A"].sends[1].packets[1]
  /\ ~op.result.isDuplicate
  /\ events = <<MessageEvent(log["A"].sends[1].message)>>
  /\ Len(log["A"].sends[1].packets) = 3
  /\ ~MapHas(ws["A"].fragmentedMessages, U32LE(1))
  /\ MapHas(ws["A"].fragmentedMessages, U32LE(2))
  /\ DOMAIN ws["A"].fragmentedMessages[U32LE(2)].receivedFragments = {1}
  /\ ws["A"].fragmentedMessages[U32LE(2)].totalFragments = 2

\* the last operation was a send() that the endpoint accepted in OPEN
SentMessage == op.name = "send" /\ op.from = OPEN /\ op.result.error = ""

\* buffer i (from 0) of total is a DATA packet that carries the 5-byte header (message
\* id, index i, last bit on the final fragment only) and the i-th slice of data
IsFragment(buffer, id, i, total, data) ==
  /\ ~decodePacket(buffer).null
  /\ decodePacket(buffer).flags = DATA
  /\ decodePacket(buffer).payload
       = id \o <<IF i = total - 1 THEN i + 128 ELSE i>>
            \o Slice(data, i * maxPacketPayloadSize,
                     IF (i + 1) * maxPacketPayloadSize < Len(data)
                     THEN (i + 1) * maxPacketPayloadSize ELSE Len(data))

\* the buffers are the fragments 0 .. total-1 of data under one message id, with
\* consecutive sequences
AreFragments(buffers, total, data) ==
  /\ Len(buffers) = total
  /\ \A i \in 0..(total - 1) :
       IsFragment(buffers[i + 1], SubSeq(decodePacket(buffers[1]).payload, 1, 4),
                  i, total, data)
  /\ \A i \in 1..(total - 1) :
       SequenceOf(buffers[i + 1]) = Inc32(SequenceOf(buffers[i]))

\* the buffers are one DATA packet whose payload is data
IsSinglePacket(buffers, data) ==
  /\ Len(buffers) = 1
  /\ ~decodePacket(buffers[1]).null
  /\ decodePacket(buffers[1]).flags = DATA
  /\ decodePacket(buffers[1]).payload = data

\* C23 (as stated): send() of a message of S bytes in OPEN hands the carrier exactly
\* one DATA packet with the message as payload for every S up to
\* maxPacketPayloadSize, S = 0 included, and the ceil(S / maxPacketPayloadSize)
\* fragments of the message, with consecutive sequences, for a larger S
C23_SendEmitsPackets ==
  SentMessage =>
    IF Len(op.arg.data) <= maxPacketPayloadSize
    THEN IsSinglePacket(sent, op.arg.data)
    ELSE AreFragments(sent, Ceil(Len(op.arg.data), maxPacketPayloadSize), op.arg.data)

\* what the code does: as stated for every S but 0; for the empty message nothing is
\* handed to the carrier and no sequence number is consumed
C23_SendEmitsPacketsUnlessEmpty ==
  SentMessage =>
    IF Len(op.arg.data) = 0 THEN sent = <<>> /\ Actor.unacknowledgedPackets = EmptyMap
    ELSE IF Len(op.arg.data) <= maxPacketPayloadSize
    THEN IsSinglePacket(sent, op.arg.data)
    ELSE AreFragments(sent, Ceil(Len(op.arg.data), maxPacketPayloadSize), op.arg.data)

\* an OPEN endpoint has accepted the empty message and handed nothing to the carrier
C23_Witness ==
  /\ SentMessage
  /\ op.arg.data = <<>>
  /\ sent = <<>>
  /\ Actor.state = OPEN
  /\ Actor.nextSequence = U32LE(1)
  /\ Actor.nextFragmentId = 2
  /\ hist[op.e].accepted = <<(<<>>)>>

\* the buffers hold a SYN
HoldsSyn(buffers) == \E i \in 1..Len(buffers) : buffers[i] = createSynPacket

\* endpoint e is OPEN, has fired onopen once and has no connection timer pending
Opened(e) ==
  /\ ws[e].state = OPEN
  /\ hist[e].opens = 1
  /\ ConnectionTimeout \notin ws[e].timers

C25_EitherFinCloses ==
  /\ Len(PeerFins) = 2
  /\ SequenceOf(PeerFins[1]) # SequenceOf(PeerFins[2])
  /\ [][(op'.name = "receive" /\ op'.arg.data \in {PeerFins[1], PeerFins[2]}) =>
          IF ~op'.result.isDuplicate /\ ws[op'.e].state \in {OPEN, CLOSING}
          THEN /\ ws'[op'.e].state = CLOSED
               /\ events' = <<CloseEvent(1000, "", TRUE)>>
               /\ ClosingTimers(ws'[op'.e]) = {}
          ELSE /\ ws'[op'.e].state = ws[op'.e].state
               /\ ws'[op'.e].timers = ws[op'.e].timers
               /\ events' = <<>>
               /\ hist' = hist]_vars
  /\ [](\A e \in DOMAIN hist : Len(hist[e].closes) <= 1)

\* the FIN the peer sent through the engine closed the endpoint; the FIN the peer
\* transmitted itself has arrived afterwards, for the first time, and changed nothing
C25_Witness ==
  /\ op.name = "receive"
  /\ op.arg.data = PeerFins[1]
  /\ ~op.result.isDuplicate
  /\ op.from = CLOSED
  /\ Actor.state = CLOSED
  /\ events = <<>>
  /\ SequenceOf(PeerFins[2]) \in Actor.receivedSequences
  /\ hist[op.e].closes = <<CloseEvent(1000, "", TRUE)>>

\* C26 (as stated): a CLOSED endpoint has no timer pending, neither the connection
\* timer nor the closing timer nor a retransmission timer of an outstanding entry
C26_ClosedHasNoTimers ==
  \A e \in DOMAIN ws :
    ws[e].state = CLOSED =>
      /\ ws[e].timers = {}
      /\ ~ws[e].connectionTimer
      /\ ~ws[e].closingTimer

\* a retransmission timer has expired on a CLOSED endpoint, which has handed the FIN
\* of its close() to the carrier once more
C26_Witness ==
  /\ op.name = "retransmissionTimer"
  /\ op.from = CLOSED
  /\ Actor.state = CLOSED
  /\ Len(sent) = 1
  /\ FlagsOf(sent[1]) = FIN
  /\ RetransmitTimers(Actor) # {}

\* C27 (as stated): once close() has been called on a CONNECTING endpoint its
\* connection timer is no longer armed
C27_CloseCancelsConnectionTimer ==
  (op.name = "close" /\ op.from = CONNECTING) =>
    /\ ConnectionTimeout \notin Actor.timers
    /\ ~Actor.connectionTimer

\* close() has returned on an endpoint that was CONNECTING: it is CLOSING, its two
\* FINs are out, the closing timer is armed and the connection timer is still armed
C27_Witness ==
  /\ op.name = "close"
  /\ op.from = CONNECTING
  /\ Actor.state = CLOSING
  /\ CountFlag(sent, FIN) = 2
  /\ ClosingTimers(Actor) # {}
  /\ Actor.connectionTimer
  /\ ConnectionTimeout \in Actor.timers

\* the last operation was a send(), in OPEN, of a message that needs more than
\* MaxFragments fragments
SentLarge ==
  /\ op.name = "send"
  /\ op.from = OPEN
  /\ Len(op.arg.data) > MaxFragments * maxPacketPayloadSize

\* C28 (as stated): send() of a message that needs more than MaxFragments fragments
\* either throws or hands the carrier no fragment with an index above
\* MaxFragments - 1, and whatever arrives the receiver delivers nothing but messages
\* that were given to send()
C28_NoIndexWrap ==
  /\ SentLarge => (op.result.error # "" \/ Len(sent) <= MaxFragments)
  /\ \A e \in DOMAIN hist :
       \A i \in 1..Len(hist[e].messages) :
         \E j \in 1..Len(hist[e].accepted) : hist[e].messages[i] = hist[e].accepted[j]

\* send() accepted a message of MaxFragments + 1 fragments; the index byte of the
\* last one reads as index 0 with the last bit set; it has arrived first and was
\* delivered, alone, as the message
C28_Witness ==
  /\ op.name = "receive"
  /\ Len(hist["A"].accepted) = 1
  /\ Len(hist["A"].accepted[1]) = MaxFragments * maxPacketPayloadSize + 1
  /\ Len(log["A"].sentPackets) = MaxFragments + 1
  /\ op.arg.data = log["A"].sentPackets[MaxFragments + 1]
  /\ decodePacket(op.arg.data).payload[FragmentHeaderSize] = 128
  /\ events = <<MessageEvent(Slice(hist["A"].accepted[1],
                                   MaxFragments * maxPacketPayloadSize,
                                   MaxFragments * maxPacketPayloadSize + 1))>>
  /\ hist["A"].messages = <<events[1].data>>

\* the sequences are first, first + 1, .. modulo 2^32
RECURSIVE Consecutive(_, _)
Consecutive(first, seqs) ==
  seqs = <<>> \/ (Head(seqs) = first /\ Consecutive(Inc32(first), Tail(seqs)))

\* x + n modulo 2^32
RECURSIVE Add32(_, _)
Add32(x, n) == IF n = 0 THEN x ELSE Add32(Inc32(x), n - 1)

\* a < b for two sequences, compared as numbers
Less32(a, b) ==
  \E i \in 1..SEQUENCE_SIZE :
    a[i] < b[i] /\ \A j \in (i + 1)..SEQUENCE_SIZE : a[j] = b[j]

\* C29: the sequence counter of a new endpoint is 1; send() and close() give the
\* packets they originate (those that are neither ACK nor SYN; for close() the FIN it
\* hands to the carrier itself and the FIN it sends through the engine) the counter's
\* value and its successors modulo 2^32 and advance the counter by their number; no
\* other operation moves the counter, and whatever else an endpoint hands to the
\* carrier, other than ACK and SYN, repeats a sequence it originated; so the
\* sequences originated are consecutive, and pairwise distinct and increasing up to
\* the packet that gets sequence 0, the sequence of the SYN, after 2^32 - 1.  An ACK
\* carries the sequence of the packet received, creates no outstanding entry, and no
\* entry or retransmission timer ever holds an ACK
C29_SequenceCounter ==
  /\ FreshEndpoint.nextSequence = U32LE(1)
  /\ Inc32(MaxSequence) = SequenceOf(createSynPacket)
  /\ [][/\ op'.name \in Originating =>
             /\ Consecutive(ws[op'.e].nextSequence, SequencesIn(Sequenced(sent')))
             /\ ws'[op'.e].nextSequence
                  = Add32(ws[op'.e].nextSequence, Len(Sequenced(sent')))
        /\ op'.name \notin Originating =>
             /\ ws'[op'.e].nextSequence = ws[op'.e].nextSequence
             /\ \A i \in 1..Len(Sequenced(sent')) :
                  \E j \in 1..Len(log[op'.e].originated) :
                    SequenceOf(Sequenced(sent')[i]) = log[op'.e].originated[j]
        /\ (op'.name = "receive" /\ ~op'.result.null) =>
             /\ \A i \in 1..Len(sent') :
                  FlagsOf(sent'[i]) = ACK => SequenceOf(sent'[i]) = op'.result.sequence
             /\ DOMAIN ws'[op'.e].unacknowledgedPackets
                  \subseteq DOMAIN ws[op'.e].unacknowledgedPackets]_vars
  /\ [](\A e \in DOMAIN ws :
          /\ \A i \in 1..(Len(log[e].originated) - 1) :
               /\ log[e].originated[i + 1] = Inc32(log[e].originated[i])
               /\ log[e].originated[i + 1] # U32LE(0) =>
                    Less32(log[e].originated[i], log[e].originated[i + 1])
          /\ \A q \in DOMAIN ws[e].unacknowledgedPackets :
               FlagsOf(ws[e].unacknowledgedPackets[q].packet) # ACK
          /\ \A t \in RetransmitTimers(ws[e]) : FlagsOf(t.packet) # ACK)

\* the endpoint whose counter was two short of wrapping has sent a message in one
\* packet and closed: the FIN close() handed to the carrier itself has the largest
\* sequence and the FIN sent through the engine has sequence 0
C29_Witness ==
  /\ op.name = "close"
  /\ Len(sent) = 2
  /\ FlagsOf(sent[1]) = FIN
  /\ FlagsOf(sent[2]) = FIN
  /\ SequenceOf(sent[1]) = MaxSequence
  /\ SequenceOf(sent[2]) = SequenceOf(createSynPacket)
  /\ log["A"].originated = <<<<254, 255, 255, 255>>, MaxSequence, U32LE(0)>>
  /\ Actor.nextSequence = U32LE(1)
  /\ MapHas(Actor.unacknowledgedPackets, U32LE(0))

\* the fragments stored under the indexes 0 .. total-1, joined in this order
RECURSIVE InIndexOrder(_, _, _)
InIndexOrder(stored, i, total) ==
  IF i >= total THEN <<>>
  ELSE stored[i] \o InIndexOrder(stored, i + 1, total)

\* the fragments the endpoint holds for the message id, with those of the payload
StoredWith(w, id, payload) ==
  [i \in (IF MapHas(w.fragmentedMessages, id)
          THEN DOMAIN w.fragmentedMessages[id].receivedFragments ELSE {})
         \cup {payload[FragmentHeaderSize] % 128} |->
     IF i = payload[FragmentHeaderSize] % 128
     THEN SubSeq(payload, FragmentHeaderSize + 1, Len(payload))
     ELSE w.fragmentedMessages[id].receivedFragments[i]]

\* the number of fragments known for the message id once the payload is in
TotalWith(w, id, payload) ==
  IF payload[FragmentHeaderSize] >= 128 THEN (payload[FragmentHeaderSize] % 128) + 1
  ELSE IF MapHas(w.fragmentedMessages, id) THEN w.fragmentedMessages[id].totalFragments
  ELSE -1

\* a payload of FragmentHeaderSize bytes or more is taken as message id, index and
\* last bit, and what follows as the fragment: it is stored, and the message is
\* delivered and its buffer dropped exactly if the buffer is then complete: the
\* number of fragments it holds is the number the last fragment announced
TakenAsFragment(w, w1, id, payload, evs) ==
  IF TotalWith(w, id, payload) = Cardinality(DOMAIN StoredWith(w, id, payload))
  THEN /\ evs = <<MessageEvent(InIndexOrder(StoredWith(w, id, payload), 0,
                                            TotalWith(w, id, payload)))>>
       /\ w1.fragmentedMessages = MapDelete(w.fragmentedMessages, id)
  ELSE /\ evs = <<>>
       /\ MapHas(w1.fragmentedMessages, id)
       /\ w1.fragmentedMessages[id].receivedFragments = StoredWith(w, id, payload)
       /\ w1.fragmentedMessages[id].totalFragments = TotalWith(w, id, payload)
       /\ \A k \in DOMAIN w.fragmentedMessages \ {id} :
            MapHas(w1.fragmentedMessages, k)
              /\ w1.fragmentedMessages[k] = w.fragmentedMessages[k]

\* C30: on an OPEN endpoint a DATA payload that is no duplicate and shorter than
\* FragmentHeaderSize is delivered at once as it is and touches no buffer; a longer
\* one is never delivered as it is: it is read as message id, index (low 7 bits of
\* the fifth byte) and last bit (its high bit), stored without its first
\* FragmentHeaderSize bytes, and delivered, joined with the other fragments of its
\* message, only in the step that completes the message's buffer
C30_ShortDirectLongFragment ==
  [][(/\ op'.name = "receive"
      /\ ~op'.result.null
      /\ op'.result.flags = DATA
      /\ ~op'.result.isDuplicate
      /\ ws[op'.e].state = OPEN) =>
       IF Len(op'.result.payload) < FragmentHeaderSize
       THEN /\ events' = <<MessageEvent(op'.result.payload)>>
            /\ ws'[op'.e].fragmentedMessages = ws[op'.e].fragmentedMessages
       ELSE TakenAsFragment(ws[op'.e], ws'[op'.e], SubSeq(op'.result.payload, 1, 4),
                            op'.result.payload, events')]_vars

\* the payload a byte shorter than the header was delivered as it is; the fragment
\* with index 0 has arrived after the one with index 1 and the last bit, and the two
\* were delivered as one message without their headers; the payload of exactly the
\* header's size sits in a buffer
C30_Witness ==
  /\ op.name = "receive"
  /\ op.from = OPEN
  /\ ~op.result.isDuplicate
  /\ op.result.payload = <<7, 0, 0, 0, 0, 10>>
  /\ events = <<MessageEvent(<<10, 11>>)>>
  /\ hist["A"].messages = <<createTestPayload(FragmentHeaderSize - 1), <<10, 11>>>>
  /\ DOMAIN Actor.fragmentedMessages = {SubSeq(createTestPayload(FragmentHeaderSize), 1, 4)}

\* C31: the connection state is always one of CONNECTING < OPEN < CLOSING < CLOSED;
\* no received packet, timer expiry, carrier error, send() or close() ever moves it
\* to a smaller one (OPEN or CLOSING may be skipped), and once it is CLOSED every
\* such step leaves it CLOSED
C31_StateOnlyAdvances ==
  /\ CONNECTING < OPEN /\ OPEN < CLOSING /\ CLOSING < CLOSED
  /\ [](\A e \in DOMAIN ws : ws[e].state \in {CONNECTING, OPEN, CLOSING, CLOSED})
  /\ [][\A e \in DOMAIN ws :
          /\ ws'[e].state >= ws[e].state
          /\ ws[e].state = CLOSED => ws'[e].state = CLOSED]_vars

\* the endpoint went from CONNECTING to CLOSED without ever opening; the SYN then
\* arrived for the first time, was acknowledged, and the endpoint is still CLOSED
C31_Witness ==
  /\ op.name = "receive"
  /\ op.arg.data = createSynPacket
  /\ ~op.result.isDuplicate
  /\ op.from = CLOSED
  /\ Actor.state = CLOSED
  /\ hist[op.e].opens = 0
  /\ Len(hist[op.e].closes) = 1
  /\ sent = <<createAckPacket(U32LE(0))>>

\* C32: over the lifetime of an endpoint onopen fires at most once and onclose fires
\* at most once; a step fires onclose exactly when it takes the state to CLOSED;
\* a step that fires onmessage finds and leaves the state OPEN, with onopen fired
\* and no onclose fired before it; and every close() leaves the endpoint CLOSING or
\* CLOSED, states from which it never becomes OPEN again, so that no onmessage
\* follows a local close()
C32_EventOrder ==
  /\ [](\A e \in DOMAIN hist : hist[e].opens <= 1 /\ Len(hist[e].closes) <= 1)
  /\ [][\A e \in DOMAIN ws :
          /\ (Len(hist'[e].closes) > Len(hist[e].closes)) <=>
               (ws[e].state # CLOSED /\ ws'[e].state = CLOSED)
          /\ (Len(hist'[e].messages) > Len(hist[e].messages)) =>
               /\ ws[e].state = OPEN
               /\ ws'[e].state = OPEN
               /\ hist[e].opens = 1
               /\ hist[e].closes = <<>>
          /\ (op'.name = "close" /\ op'.e = e) => ws'[e].state \in {CLOSING, CLOSED}
          /\ ws[e].state \in {CLOSING, CLOSED} => ws'[e].state \in {CLOSING, CLOSED}]_vars

\* an endpoint that opened, delivered a message and was closed by its user has
\* fired its one close event from the closing timer
C32_Witness ==
  /\ op.name = "closingTimer"
  /\ op.from = CLOSING
  /\ Actor.state = CLOSED
  /\ hist[op.e].opens = 1
  /\ Len(hist[op.e].messages) >= 1
  /\ Len(hist[op.e].closes) = 1
  /\ Len(events) = 1
  /\ events[1].type = "close"

\* the entry of the sequence as sendPacket records it: no attempt made, its timer pending
RecordedFresh(w, sequence) ==
  /\ MapHas(w.unacknowledgedPackets, sequence)
  /\ w.unacknowledgedPackets[sequence].attempts = 0
  /\ w.unacknowledgedPackets[sequence].timerId \in w.timers
  /\ w.unacknowledgedPackets[sequence].timerId.sequence = sequence

\* the retransmission timer t expired in the step from w to w1, which handed the
\* buffers to the carrier
FiredSynchronous(w, w1, t, buffers, evs) ==
  IF MapHas(w.unacknowledgedPackets, t.sequence)
  THEN /\ w.unacknowledgedPackets[t.sequence].attempts = 0
       /\ buffers = <<t.packet>>
       /\ w1.unacknowledgedPackets = MapDelete(w.unacknowledgedPackets, t.sequence)
       /\ w1.timers = w.timers
       /\ t \in w1.timers
  ELSE /\ buffers = <<>>
       /\ evs = <<>>
       /\ w1 = [w EXCEPT !.timers = @ \ {t}]

\* C33: on a carrier that brings the peer's ACK back inside communicator.send, every
\* sequence sendPacket sends is outstanding when the call returns, with no attempt
\* made and its retransmission timer pending (the ACK of the first transmission has
\* cancelled nothing); an entry leaves the map only when its retransmission timer
\* expires: that step hands the packet to the carrier once more, the ACK of the
\* retransmission removes the entry, and the timer is armed again; when the re-armed
\* timer expires it finds no entry, sends nothing and changes nothing else; and with
\* timers that expire, every entry is removed and no retransmission timer is left
C33_SynchronousAck ==
  /\ maxRetransmissionAttempts >= 1
  /\ [][/\ \A s \in EngineSequences(op', ws[op'.e], ws'[op'.e]) :
             RecordedFresh(ws'[op'.e], s)
        /\ op'.name = "retransmissionTimer" =>
             FiredSynchronous(ws[op'.e], ws'[op'.e], op'.arg.timer, sent', events')
        /\ op'.name # "retransmissionTimer" =>
             DOMAIN ws[op'.e].unacknowledgedPackets
               \subseteq DOMAIN ws'[op'.e].unacknowledgedPackets]_vars
  /\ <>[](ws["A"].unacknowledgedPackets = EmptyMap /\ RetransmitTimers(ws["A"]) = {})

\* the re-armed timer of a DATA packet that was retransmitted once has expired: it
\* found no entry and sent nothing
C33_Witness ==
  /\ op.name = "retransmissionTimer"
  /\ FlagsOf(op.arg.timer.packet) = DATA
  /\ sent = <<>>
  /\ hist["A"].accepted # <<>>
  /\ Actor.state = OPEN
  /\ Actor.unacknowledgedPackets = EmptyMap
  /\ RetransmitTimers(Actor) = {}
  /\ Actor.nextSequence # U32LE(1)

\* the endpoint w1 is w with the sequence marked as received and nothing else changed
OnlyMarked(w, w1, sequence) ==
  /\ sequence \in w1.receivedSequences
  /\ w1.receivedSequenceWindow = Append(w.receivedSequenceWindow, sequence)
  /\ w1 = [w EXCEPT !.receivedSequences = w1.receivedSequences,
                    !.receivedSequenceWindow = w1.receivedSequenceWindow]

\* C34: when a decodable DATA packet arrives for the first time at an endpoint that
\* is CONNECTING, CLOSING or CLOSED, or a FIN at one that is CONNECTING, the endpoint
\* hands exactly the ACK for its sequence to the carrier and records the sequence in
\* its window; it fires no event and changes nothing else; the sender's engine,
\* reached by that ACK, holds no outstanding entry for the sequence; whenever the
\* same buffer arrives again, in whatever state the endpoint is by then, it is
\* classified as duplicate, acknowledged again, and the endpoint and what its user
\* has observed stay as they are; and the payload of such a DATA packet is never
\* among the messages delivered
C34_UnheededNeverDelivered ==
  /\ [][op'.name = "receive" =>
          /\ Unheeded(op'.result, ws[op'.e].state) =>
               /\ sent' = <<createAckPacket(op'.result.sequence)>>
               /\ OnlyMarked(ws[op'.e], ws'[op'.e], op'.result.sequence)
               /\ events' = <<>>
               /\ hist' = hist
               /\ ~MapHas(log'[op'.e].sender.unacknowledgedPackets, op'.result.sequence)
          /\ op'.arg.data \in log[op'.e].unheeded =>
               /\ op'.result.isDuplicate
               /\ sent' = <<createAckPacket(SequenceOf(op'.arg.data))>>
               /\ ws' = ws
               /\ events' = <<>>
               /\ hist' = hist]_vars
  /\ [](\A e \in DOMAIN ws : \A data \in log[e].unheeded :
          FlagsOf(data) = DATA =>
            \A i \in 1..Len(hist[e].messages) :
              hist[e].messages[i] # decodePacket(data).payload)

\* the DATA packet arrived while the endpoint was CONNECTING and was acknowledged,
\* which cleared the sender's entry; the endpoint opened afterwards; now the DATA
\* packet has arrived again, as a duplicate, and nothing was delivered
C34_Witness ==
  /\ op.name = "receive"
  /\ FlagsOf(op.arg.data) = DATA
  /\ op.arg.data \in log[op.e].unheeded
  /\ op.result.isDuplicate
  /\ op.from = OPEN
  /\ Actor.state = OPEN
  /\ hist[op.e].opens = 1
  /\ hist[op.e].messages = <<>>
  /\ MapHas(SenderSends.w.unacknowledgedPackets, SequenceOf(op.arg.data))
  /\ ~MapHas(log[op.e].sender.unacknowledgedPackets, SequenceOf(op.arg.data))

\* none of the buffers is a FIN
NoFin(buffers) == \A i \in 1..Len(buffers) : ~HasFlag(decodePacket(buffers[i]).flags, FIN)

\* the result of handleReceivedPacket is that of a FIN taken for new
FirstFin(r) ==
  IF r.null THEN FALSE
  ELSE HasFlag(r.flags, FIN) /\ ~HasFlag(r.flags, SYN) /\ ~r.isDuplicate

\* C35: an endpoint that is OPEN when a FIN arrives for the first time becomes CLOSED
\* and hands only the ACK of that FIN to the carrier, no FIN; so when only "A" calls
\* close(), no FIN is ever in flight towards "A"; "A" becomes CLOSED only when its
\* closing timer expires, with a close event that is not clean and carries the code
\* (1000 when none or 0 was given) and reason of the call; "B" becomes CLOSED only
\* when a FIN arrives, with a clean close event of code 1000; and once "A" has called
\* close() both do become CLOSED
C35_OnlyPeerClosesCleanly ==
  /\ [][/\ (op'.name = "receive" /\ FirstFin(op'.result) /\ ws[op'.e].state = OPEN) =>
               /\ ws'[op'.e].state = CLOSED
               /\ sent' = <<createAckPacket(op'.result.sequence)>>
        /\ (ws["A"].state # CLOSED /\ ws'["A"].state = CLOSED) =>
             /\ op'.name = "closingTimer"
             /\ op'.e = "A"
             /\ Len(events') = 1
             /\ events'[1].type = "close"
             /\ ~events'[1].wasClean
             /\ events'[1].code = OrElse(op'.arg.timer.code, 0, 1000)
        /\ (ws["B"].state # CLOSED /\ ws'["B"].state = CLOSED) =>
             /\ op'.name = "receive"
             /\ op'.e = "B"
             /\ FlagsOf(op'.arg.data) = FIN
             /\ events' = <<CloseEvent(1000, "", TRUE)>>]_vars
  /\ [](NoFin(wire["A"]))
  /\ [](\A i \in 1..Len(hist["A"].closes) : ~hist["A"].closes[i].wasClean)
  /\ (ws["A"].state = CLOSING) ~> (ws["A"].state = CLOSED /\ ws["B"].state = CLOSED)

\* "A" called close(4000, "bye") on the open pair; "B" closed cleanly on the first
\* FIN; the closing timer of "A" has now expired and closed "A", not cleanly
C35_Witness ==
  /\ op.name = "closingTimer"
  /\ op.e = "A"
  /\ ws["A"].state = CLOSED
  /\ ws["B"].state = CLOSED
  /\ hist["A"].opens = 1
  /\ hist["B"].opens = 1
  /\ hist["A"].closes = <<CloseEvent(4000, "bye", FALSE)>>
  /\ hist["B"].closes = <<CloseEvent(1000, "", TRUE)>>
  /\ events = <<CloseEvent(4000, "bye", FALSE)>>

\* C36: an endpoint hands a SYN to the carrier at construction and otherwise only in
\* the step that takes it from CONNECTING to OPEN, one SYN in that step, so never
\* more than two in its lifetime; a SYN that arrives when sequence 0 is already in
\* the window is classified as duplicate and answered with its ACK alone, the
\* endpoint unchanged; and on a carrier that delivers what it holds, from some point
\* on no SYN is in flight in either direction
C36_SynExchangeStops ==
  /\ [](\A e \in DOMAIN log : log[e].syns <= 2)
  /\ [][/\ Syns(sent') > 0 =>
             /\ Syns(sent') = 1
             /\ op'.name = "receive"
             /\ FlagsOf(op'.arg.data) = SYN
             /\ ws[op'.e].state = CONNECTING
             /\ ws'[op'.e].state = OPEN
        /\ (/\ op'.name = "receive"
            /\ FlagsOf(op'.arg.data) = SYN
            /\ SequenceOf(op'.arg.data) \in ws[op'.e].receivedSequences) =>
             /\ op'.result.isDuplicate
             /\ sent' = <<createAckPacket(SequenceOf(op'.arg.data))>>
             /\ ws' = ws
             /\ events' = <<>>]_vars
  /\ <>[](\A e \in DOMAIN wire : ~HoldsSyn(wire[e]))

\* both endpoints have handed their two SYNs to the carrier; the second SYN of "B"
\* has reached "A", which took it for a duplicate, and no SYN is in flight
C36_Witness ==
  /\ log["A"].syns = 2
  /\ log["B"].syns = 2
  /\ op.name = "receive"
  /\ op.e = "A"
  /\ op.arg.data = createSynPacket
  /\ op.result.isDuplicate
  /\ sent = <<createAckPacket(U32LE(0))>>
  /\ BothOpen
  /\ \A e \in Endpoints : ~HoldsSyn(wire[e])

\* how many of the buffers are ACK packets
Acks(buffers) == Cardinality({i \in 1..Len(buffers) : FlagsOf(buffers[i]) = ACK})

\* C37: a step in which an ACK packet arrives hands nothing to the carrier and fires
\* no event; a step in which a decodable packet that is no ACK arrives hands exactly
\* one ACK to the carrier, first, with the sequence of that packet, whatever state
\* the endpoint is in; no other step hands an ACK to the carrier; and on a carrier
\* that delivers what it holds, from some point on no ACK is in flight
C37_AckEndsChain ==
  /\ [][/\ (op'.name = "receive" /\ ~decodePacket(op'.arg.data).null) =>
             IF FlagsOf(op'.arg.data) = ACK
             THEN sent' = <<>> /\ events' = <<>>
             ELSE /\ Acks(sent') = 1
                  /\ sent'[1] = createAckPacket(SequenceOf(op'.arg.data))
        /\ op'.name # "receive" => Acks(sent') = 0]_vars
  /\ <>[](\A e \in DOMAIN wire : Acks(wire[e]) = 0)

\* "A", closed by the FIN of "B", has been brought that FIN once more by the
\* retransmission timer of "B" and has acknowledged it again
C37_Witness ==
  /\ op.name = "receive"
  /\ op.e = "A"
  /\ op.from = CLOSED
  /\ FlagsOf(op.arg.data) = FIN
  /\ op.result.isDuplicate
  /\ sent = <<createAckPacket(SequenceOf(op.arg.data))>>
  /\ hist["A"].accepted # <<>>
  /\ Len(hist["A"].closes) = 1

\* C38: in every state the received-sequence window and the membership map agree:
\* no sequence is in the window twice, the map holds exactly the sequences of the
\* window, and the window is no longer than windowSize
C38_WindowViewsAgree ==
  \A e \in DOMAIN ws :
    /\ \A i, j \in 1..Len(ws[e].receivedSequenceWindow) :
         ws[e].receivedSequenceWindow[i] = ws[e].receivedSequenceWindow[j] => i = j
    /\ ws[e].receivedSequences = Elements(ws[e].receivedSequenceWindow)
    /\ Len(ws[e].receivedSequenceWindow) <= windowSize

\* a new sequence was accepted into the full window: the oldest one, sequence 1, has
\* left both the window and the map, and the new one is in both
C38_Witness ==
  /\ op.name = "receive"
  /\ ~op.result.isDuplicate
  /\ op.result.sequence = U32LE(windowSize)
  /\ Len(Actor.receivedSequenceWindow) = windowSize
  /\ Head(Actor.receivedSequenceWindow) = U32LE(2)
  /\ Actor.receivedSequenceWindow[windowSize] = U32LE(windowSize)
  /\ U32LE(1) \notin Actor.receivedSequences
  /\ U32LE(windowSize) \in Actor.receivedSequences

====
